---- MODULE Spec2Model ----
(***************************************************************************)
(* A model of the FRC Power Up score simulation (simulation.py): the       *)
(* clock/scheduler (Simulation), the Agent scheduled-action protocol, the  *)
(* resumable deciders ("players") of Robot and Human, and the match driver *)
(* (PowerUpGame.tick / PowerUpGame.play).                                  *)
(*                                                                         *)
(* The program is single threaded: every operation (a constructor, a call  *)
(* of schedule_action, set_player, tick, one iteration of play's loop) is  *)
(* one atomic action.  The operators below work on a record `s' holding    *)
(* the whole program state; an action packs the variables into that        *)
(* record (World), applies the operator and unpacks the result (Commit).   *)
(***************************************************************************)
EXTENDS Integers, Sequences, FiniteSets, Bags, TLC

\* ------------------------------------------------------------------------
\* Program constants
\* ------------------------------------------------------------------------
AUTONOMOUS_SECS == 15
TELEOP_SECS == 2 * 60 + 15
GAME_SECS == AUTONOMOUS_SECS + TELEOP_SECS
POWER_UP_SECS == 10

RED == "RED"
BLUE == "BLUE"
ALLIANCES == <<RED, BLUE>>
SWITCH_FRONT_COLOR == BLUE
SCALE_FRONT_COLOR == RED

\* Color.opposite
opposite(color) == IF color = RED THEN BLUE ELSE RED

\* Python's None and a present value, for the fields that may hold None.
None == <<>>
Some(v) == <<v>>

\* ScoreFactor
NOT_YET == "NOT_YET"
ACHIEVED == "ACHIEVED"
COUNTED == "COUNTED"

\* ------------------------------------------------------------------------
\* Locations and travel times
\* ------------------------------------------------------------------------
Location ==
    { "RED_EXCHANGE_ZONE", "BLUE_EXCHANGE_ZONE",
      "RED_FRONT_PORTAL", "RED_BACK_PORTAL", "BLUE_FRONT_PORTAL", "BLUE_BACK_PORTAL",
      "RED_POWER_CUBE_ZONE", "BLUE_POWER_CUBE_ZONE",
      "RED_SWITCH_FENCE", "BLUE_SWITCH_FENCE",
      "RED_OUTER_ZONE", "BLUE_OUTER_ZONE",
      "RED_FRONT_INNER_ZONE", "RED_BACK_INNER_ZONE",
      "BLUE_FRONT_INNER_ZONE", "BLUE_BACK_INNER_ZONE",
      "RED_PLATFORM", "BLUE_PLATFORM", "RED_PLATFORM_CLIMBED", "BLUE_PLATFORM_CLIMBED",
      "FRONT_NULL_TERRITORY", "BACK_NULL_TERRITORY" }

\* find_location('{}_X', a) and find_location('{}_{}_X', a, b): the pattern
\* with its arguments substituted.
find_location1(a, suffix) == a \o "_" \o suffix
find_location2(a, b, suffix) == a \o "_" \o b \o "_" \o suffix

\* locate() of _init_locations: a template is <<token, rest>>, the token
\* being "red", "blue" or "" (a name without a colour).
locate(template, color1) ==
    IF template[1] = "red" THEN color1 \o "_" \o template[2]
    ELSE IF template[1] = "blue" THEN opposite(color1) \o "_" \o template[2]
    ELSE template[2]

\* The set_pairs(...) calls of _init_locations, in order.
SetPairsCalls ==
    << << <<"red", "OUTER_ZONE">>, <<"red", "EXCHANGE_ZONE">>, 2 >>,
       << <<"red", "OUTER_ZONE">>, <<"blue", "FRONT_PORTAL">>, 5 >>,
       << <<"red", "OUTER_ZONE">>, <<"blue", "BACK_PORTAL">>, 5 >>,
       << <<"red", "OUTER_ZONE">>, <<"red", "POWER_CUBE_ZONE">>, 2 >>,
       << <<"red", "OUTER_ZONE">>, <<"red", "FRONT_INNER_ZONE">>, 6 >>,
       << <<"red", "OUTER_ZONE">>, <<"red", "BACK_INNER_ZONE">>, 6 >>,
       << <<"red", "SWITCH_FENCE">>, <<"red", "FRONT_INNER_ZONE">>, 4 >>,
       << <<"red", "SWITCH_FENCE">>, <<"red", "BACK_INNER_ZONE">>, 4 >>,
       << <<"red", "SWITCH_FENCE">>, <<"red", "PLATFORM">>, 2 >>,
       << <<"red", "PLATFORM">>, <<"red", "FRONT_INNER_ZONE">>, 4 >>,
       << <<"red", "PLATFORM">>, <<"red", "BACK_INNER_ZONE">>, 4 >>,
       << <<"red", "FRONT_INNER_ZONE">>, <<"", "FRONT_NULL_TERRITORY">>, 6 >>,
       << <<"red", "BACK_INNER_ZONE">>, <<"", "BACK_NULL_TERRITORY">>, 6 >> >>

\* TRAVEL_TIMES as the set of its items <<location1, location2, seconds>>.
TRAVEL_TIMES ==
    UNION { { << locate(SetPairsCalls[i][1], a), locate(SetPairsCalls[i][2], a),
                 SetPairsCalls[i][3] >>,
              << locate(SetPairsCalls[i][2], a), locate(SetPairsCalls[i][1], a),
                 SetPairsCalls[i][3] >> }
            : i \in 1..Len(SetPairsCalls), a \in {RED, BLUE} }

\* (location1, location2) in TRAVEL_TIMES
has_path(l1, l2) == \E e \in TRAVEL_TIMES : e[1] = l1 /\ e[2] = l2
\* TRAVEL_TIMES[(location1, location2)]
travel_time(l1, l2) == (CHOOSE e \in TRAVEL_TIMES : e[1] = l1 /\ e[2] = l2)[3]

\* loc.is_inner_zone
is_inner_zone(loc) ==
    loc \in { "RED_FRONT_INNER_ZONE", "RED_BACK_INNER_ZONE",
              "BLUE_FRONT_INNER_ZONE", "BLUE_BACK_INNER_ZONE" }

\* ------------------------------------------------------------------------
\* Score
\* ------------------------------------------------------------------------
Score(r, b) == [red |-> r, blue |-> b]
ZERO == Score(0, 0)
\* Score.pick
pick(color, value) ==
    Score(IF color = RED THEN value ELSE 0, IF color = BLUE THEN value ELSE 0)
\* __add__ adding the red points only.
add_score_red_only(a, b) == Score(a.red + b.red, a.blue)

\* Score.__add__
add_score(a, b) == Score(a.red + b.red, a.blue + b.blue)

\* int.__cmp__: -1, 0 or 1
cmp(x, y) == IF x < y THEN -1 ELSE IF x = y THEN 0 ELSE 1

\* wlt_rp giving the tie to RED (compares with >=).
wlt_rp_tie_to_red(a) ==
    LET red_points == (IF a.red >= a.blue THEN 1 ELSE -1) + 1
    IN Score(red_points, 2 - red_points)

\* Score.wlt_rp
wlt_rp(a) ==
    LET red_points == cmp(a.red, a.blue) + 1
    IN Score(red_points, 2 - red_points)

\* sep() and the Agent name "{}{}{}".format(sep(alliance), sep(position), typename)
sep(string) == IF string # "" THEN string \o " " ELSE ""
agent_name(alliance, position, typename) == sep(alliance) \o sep(position) \o typename

\* ------------------------------------------------------------------------
\* The program state as one record `s'
\*   time, agents (the keys of the OrderedDict Simulation.agents, in
\*   order), ag (the agent objects by name), cubes, plates (Simulation);
\*   plate_cubes (Plate.cubes by plate name); test_actions_done (the
\*   counter of the test's effect doit); score, auto_switch_owners
\*   (PowerUpGame); raised (the exception the last call ended with, or "").
\* History kept for the properties, never read by the program:
\*   log (what the last call did, in order), nextId/runs/cancelled (every
\*   scheduled closure gets an identity; runs counts its executions,
\*   cancelled holds the closures that were overwritten while pending),
\*   earned (the sum of the points every score() call returned).
\* ------------------------------------------------------------------------
\* An event of the log; at and delay are filled in for a run closure.
Event(ev, who, t, id, st) ==
    [ev |-> ev, who |-> who, t |-> t, id |-> id, st |-> st, at |-> 0, delay |-> 0,
     fn |-> ""]
Log(s, e) == [s EXCEPT !.log = Append(@, e)]

\* A zero-argument effect (closure): fn names its code, dest and secs are
\* the values it closed over; id, at and delay are its identity and the
\* time and delay of the schedule_action call that stored it.
Effect(fn, dest, secs) ==
    [fn |-> fn, dest |-> dest, secs |-> secs, id |-> 0, at |-> 0, delay |-> 0]

\* A decider (generator): the steps before its terminal loop, the number
\* of yields so far, and the label its terminal loop yields forever.
\* A step is the statements run since the previous yield and the label
\* yielded; cond = "wait_for_teleop" is `if x.wait_for_teleop(): yield'.
Stmt(op, dest, secs, fn) == [op |-> op, dest |-> dest, secs |-> secs, fn |-> fn]
Step(do, cond, label) == [do |-> do, cond |-> cond, label |-> label]
Player(script, terminal) == [script |-> script, pos |-> 0, terminal |-> terminal]
\* itertools.repeat("--")
NoopPlayer == Player(<< >>, "--")

\* Simulation.__init__
Simulation_init ==
    [ time |-> 0,
      agents |-> << >>,
      ag |-> << >>,
      cubes |-> [loc \in Location |->
                   IF loc \in {"RED_SWITCH_FENCE", "BLUE_SWITCH_FENCE"} THEN 6
                   ELSE IF loc \in {"RED_POWER_CUBE_ZONE", "BLUE_POWER_CUBE_ZONE"} THEN 10
                   ELSE 0],
      plates |-> [loc \in Location |-> None],
      plate_cubes |-> << >>,
      test_actions_done |-> 0,
      score |-> ZERO,
      auto_switch_owners |-> ZERO,
      raised |-> "",
      log |-> << >>,
      nextId |-> 1,
      runs |-> << >>,
      cancelled |-> {},
      earned |-> ZERO,
      made |-> 0,
      other |-> << >> ]

\* autonomous ending one second early (time < AUTONOMOUS_SECS).
autonomous_strict(s) == s.time < AUTONOMOUS_SECS

\* Simulation.autonomous
autonomous(s) == s.time <= AUTONOMOUS_SECS

\* Agent.autonomous: read from the simulation at every use
Agent_autonomous(s, n) == autonomous(s)

\* Simulation.add: self.agents[agent.name] = agent.  A new key goes to the
\* end of the OrderedDict; an existing key keeps its place and gets the
\* new object.
add(s, name, agent) ==
    IF agent.simulation # "sim" THEN [s EXCEPT !.raised = "AssertionError"]
    ELSE
    [s EXCEPT !.agents = IF name \in DOMAIN s.ag THEN @ ELSE Append(@, name),
              !.ag = [k \in DOMAIN s.ag \cup {name} |->
                        IF k = name THEN agent ELSE s.ag[k]]]

\* Agent.__init__: the object is bound to the simulation it was given and
\* registers itself there.  `fields' are the attributes the subclass sets;
\* oid tells the objects apart.
Agent_init(s, name, fields) ==
    add([s EXCEPT !.made = @ + 1], name,
        [simulation |-> "sim", oid |-> s.made + 1] @@ fields)

\* The same for an agent of a second Simulation, `other': Agent(other,
\* alliance, position) registers in other.agents.
other_Agent_init(s, name, fields) ==
    [s EXCEPT !.made = @ + 1,
              !.other = Append(@, [simulation |-> "other", oid |-> s.made + 1,
                                   name |-> name] @@ fields)]

\* other.add(agent), for an agent of this simulation
other_add(s, agent) ==
    IF agent.simulation # "other" THEN [s EXCEPT !.raised = "AssertionError"]
    ELSE [s EXCEPT !.other = Append(@, agent)]

\* Agent99 of test_agent: an Agent counting its scheduled_action_done calls.
Agent99_init(s, alliance, position) ==
    Agent_init(s, agent_name(alliance, position, "Agent99"),
        [ kind |-> "Agent99", alliance |-> alliance, position |-> position,
          eta |-> None, scheduled_action |-> None,
          scheduled_action_description |-> "",
          actions |-> 0 ])

\* Robot.__init__ (location None: the alliance's outer zone)
Robot_init(s, alliance, position) ==
    Agent_init(s, agent_name(alliance, position, "Robot"),
        [ kind |-> "Robot", alliance |-> alliance, position |-> position,
          eta |-> None, scheduled_action |-> None,
          scheduled_action_description |-> "",
          extra_drive_time |-> 0, pickup_time |-> 1, drop_time |-> 1,
          place_time |-> 2, climb_time |-> 4,
          location |-> IF alliance = RED THEN "RED_OUTER_ZONE" ELSE "BLUE_OUTER_ZONE",
          cubes |-> 0, climbed |-> "", auto_run |-> NOT_YET,
          behavior |-> "", player |-> NoopPlayer ])

\* Human.__init__
Human_init(s, alliance, position) ==
    LET name == agent_name(alliance, position, "Human")
        station == position = "STATION"
        exchange_plate == alliance \o " Exchange Plate"
        exchange_zone == find_location1(alliance, "EXCHANGE_ZONE")
        s1 == Agent_init(s, name,
                  [ kind |-> "Human", alliance |-> alliance, position |-> position,
                    eta |-> None, scheduled_action |-> None,
                    scheduled_action_description |-> "",
                    get_from_exchange_time |-> 4, put_to_exchange_time |-> 4,
                    put_to_vault_time |-> 6, put_through_portal_time |-> 3,
                    activate_power_up_time |-> 3,
                    vault |-> IF station THEN Some(agent_name(alliance, "", "Vault"))
                              ELSE None,
                    exchange_plate |-> IF station THEN Some(exchange_plate) ELSE None,
                    exchange_zone |-> IF station THEN Some(exchange_zone) ELSE None,
                    portal |-> IF station THEN None
                               ELSE Some(find_location2(alliance, position, "PORTAL")),
                    cubes |-> 0, behavior |-> "", player |-> NoopPlayer ])
    IN IF station
       THEN [s1 EXCEPT !.plates[exchange_zone] = Some(exchange_plate),
                       !.plate_cubes =
                           [p \in DOMAIN s.plate_cubes \cup {exchange_plate} |->
                              IF p = exchange_plate THEN 0 ELSE s.plate_cubes[p]]]
       ELSE s1

\* schedule_action that leaves a stored action in place ("schedule only
\* when idle") while taking the new eta and description.
schedule_action_keep(s, n, seconds, action, description) ==
    LET old == s.ag[n].scheduled_action
        new == [action EXCEPT !.id = s.nextId, !.at = s.time, !.delay = seconds]
    IN [s EXCEPT !.ag[n].eta = Some(s.time + seconds),
                 !.ag[n].scheduled_action = IF old = None THEN Some(new) ELSE old,
                 !.ag[n].scheduled_action_description = description,
                 !.nextId = @ + 1,
                 !.runs = Append(@, 0),
                 !.cancelled = @ \cup {old[i].id : i \in 1..Len(old)},
                 !.log = Append(@, Event("schedule", n, s.time + seconds, s.nextId, ""))]

\* schedule_action taking `seconds' as the time of day: eta = seconds.
schedule_action_absolute(s, n, seconds, action, description) ==
    LET old == s.ag[n].scheduled_action
        new == [action EXCEPT !.id = s.nextId, !.at = s.time, !.delay = seconds]
    IN [s EXCEPT !.ag[n].eta = Some(seconds),
                 !.ag[n].scheduled_action = Some(new),
                 !.ag[n].scheduled_action_description = description,
                 !.nextId = @ + 1,
                 !.runs = Append(@, 0),
                 !.cancelled = @ \cup {old[i].id : i \in 1..Len(old)},
                 !.log = Append(@, Event("schedule", n, seconds, s.nextId, ""))]

\* Agent.schedule_action: eta = time + seconds, the action and the
\* description overwrite what was stored.
schedule_action(s, n, seconds, action, description) ==
    LET old == s.ag[n].scheduled_action
        new == [action EXCEPT !.id = s.nextId, !.at = s.time, !.delay = seconds]
    IN [s EXCEPT !.ag[n].eta = Some(s.time + seconds),
                 !.ag[n].scheduled_action = Some(new),
                 !.ag[n].scheduled_action_description = description,
                 !.nextId = @ + 1,
                 !.runs = Append(@, 0),
                 !.cancelled = @ \cup {old[i].id : i \in 1..Len(old)},
                 !.log = Append(@, Event("schedule", n, s.time + seconds, s.nextId, ""))]

\* wait passing its argument on as it is, without max(seconds, 1).
wait_uncoerced(s, n, seconds) ==
    schedule_action(s, n, seconds, Effect("done", "", 0), "wait")

\* Agent.wait
wait(s, n, seconds) ==
    LET delay == IF seconds >= 1 THEN seconds ELSE 1
    IN schedule_action(s, n, delay, Effect("done", "", 0), "wait")

\* Agent.wait_for_teleop: the value returned, and the state left.
wait_for_teleop_result(s, n) == AUTONOMOUS_SECS - s.time > 0
wait_for_teleop(s, n) ==
    LET delay == AUTONOMOUS_SECS - s.time
    IN IF delay > 0
       THEN schedule_action(s, n, delay, Effect("done", "", 0), "wait for Teleop")
       ELSE s

\* ------------------------------------------------------------------------
\* Robot actions: each schedules its completion code
\* ------------------------------------------------------------------------
\* Robot.at_platform
at_platform(s, n) == s.ag[n].location = find_location1(s.ag[n].alliance, "PLATFORM")

\* Robot.drive_to giving up the pending action before the lookup of the
\* travel time.
drive_to_cancelling(s, n, destination) ==
    IF s.ag[n].climbed # "" THEN s
    ELSE IF ~has_path(s.ag[n].location, destination)
    THEN [s EXCEPT !.raised = "KeyError",
                   !.ag[n].eta = None,
                   !.ag[n].scheduled_action = None,
                   !.ag[n].scheduled_action_description = ""]
    ELSE schedule_action(s, n,
             travel_time(s.ag[n].location, destination) + s.ag[n].extra_drive_time,
             Effect("arrive", destination, 0), "drive_to " \o destination)

\* Robot.drive_to
drive_to(s, n, destination) ==
    IF s.ag[n].climbed # "" THEN s
    ELSE IF ~has_path(s.ag[n].location, destination)
    THEN [s EXCEPT !.raised = "KeyError"]
    ELSE schedule_action(s, n,
             travel_time(s.ag[n].location, destination) + s.ag[n].extra_drive_time,
             Effect("arrive", destination, 0), "drive_to " \o destination)

\* Robot.pickup, Robot.drop, Robot.place, Robot.climb
pickup(s, n) == schedule_action(s, n, s.ag[n].pickup_time, Effect("pickup", "", 0), "pickup")
drop(s, n) == schedule_action(s, n, s.ag[n].drop_time, Effect("drop", "", 0), "drop")
place(s, n) == schedule_action(s, n, s.ag[n].place_time, Effect("place", "", 0), "place")
\* Robot.climb without its test of the platform.
climb_anywhere(s, n) ==
    schedule_action(s, n, s.ag[n].climb_time, Effect("climb", "", 0), "climb")
climb(s, n) ==
    IF at_platform(s, n)
    THEN schedule_action(s, n, s.ag[n].climb_time, Effect("climb", "", 0), "climb")
    ELSE s

\* Human.get_from_exchange, Human.put_to_exchange
get_from_exchange(s, n) ==
    schedule_action(s, n, s.ag[n].get_from_exchange_time,
                    Effect("get_from_exchange", "", 0), "get from Exchange")
put_to_exchange(s, n) ==
    schedule_action(s, n, s.ag[n].put_to_exchange_time,
                    Effect("put_to_exchange", "", 0), "put to Exchange")

\* Human.put_through_portal
put_through_portal(s, n) ==
    schedule_action(s, n, s.ag[n].put_through_portal_time,
                    Effect("put_through_portal", "", 0), "put through Portal")

\* ------------------------------------------------------------------------
\* Vault columns, power-ups of the seesaws and the power-up queue
\* ------------------------------------------------------------------------
\* add_cube storing whatever total results.
add_cube_unchecked(s, n, i, cubes) ==
    [s EXCEPT !.ag[n].columns[i].cubes = @ + cubes]

\* VaultColumn.add_cube, on column i of vault n
add_cube(s, n, i, cubes) ==
    IF cubes < 0 THEN [s EXCEPT !.raised = "RuntimeError"]
    ELSE IF s.ag[n].columns[i].cubes + cubes > 3
    THEN [s EXCEPT !.raised = "RuntimeError"]
    ELSE [s EXCEPT !.ag[n].columns[i].cubes = @ + cubes]

\* Scale.force without its test of the autonomous period.
Scale_force_unchecked(s, n, alliance, is_start) ==
    [s EXCEPT !.ag[n].forced = is_start,
              !.ag[n].force_alliance = IF is_start THEN alliance ELSE "",
              !.ag[n].boosted = FALSE,
              !.ag[n].boost_alliance = ""]

\* The power-up a seesaw is under (for the log).
power_up_of(a) == IF a.forced THEN "forced" ELSE IF a.boosted THEN "boosted" ELSE ""

\* Scale.force; the log keeps the call and the power-up it found
Scale_force(s, n, alliance, is_start) ==
    IF Agent_autonomous(s, n) THEN [s EXCEPT !.raised = "RuntimeError"]
    ELSE Log([s EXCEPT !.ag[n].forced = is_start,
                       !.ag[n].force_alliance = IF is_start THEN alliance ELSE "",
                       !.ag[n].boosted = FALSE,
                       !.ag[n].boost_alliance = ""],
             Event(IF is_start THEN "force" ELSE "end force", n, s.time, 0,
                   power_up_of(s.ag[n])))

\* Scale.boost leaving a Force as it is.
Scale_boost_beside_force(s, n, alliance, is_start) ==
    IF Agent_autonomous(s, n) THEN [s EXCEPT !.raised = "RuntimeError"]
    ELSE Log([s EXCEPT !.ag[n].boosted = is_start,
                       !.ag[n].boost_alliance = IF is_start THEN alliance ELSE ""],
             Event(IF is_start THEN "boost" ELSE "end boost", n, s.time, 0,
                   power_up_of(s.ag[n])))

\* Scale.boost; the log keeps the call and the power-up it found
Scale_boost(s, n, alliance, is_start) ==
    IF Agent_autonomous(s, n) THEN [s EXCEPT !.raised = "RuntimeError"]
    ELSE Log([s EXCEPT !.ag[n].boosted = is_start,
                       !.ag[n].boost_alliance = IF is_start THEN alliance ELSE "",
                       !.ag[n].forced = FALSE,
                       !.ag[n].force_alliance = ""],
             Event(IF is_start THEN "boost" ELSE "end boost", n, s.time, 0,
                   power_up_of(s.ag[n])))

\* Switch.force and Switch.boost: no-op if this isn't the alliance's Switch
Switch_force(s, n, alliance, is_start) ==
    IF alliance = s.ag[n].alliance THEN Scale_force(s, n, alliance, is_start) ELSE s
Switch_boost(s, n, alliance, is_start) ==
    IF alliance = s.ag[n].alliance THEN Scale_boost(s, n, alliance, is_start) ELSE s

\* seesaw.force(alliance, is_start), seesaw.boost(alliance, is_start), by
\* the seesaw's class
force(s, n, alliance, is_start) ==
    IF s.ag[n].kind = "Switch" THEN Switch_force(s, n, alliance, is_start)
    ELSE Scale_force(s, n, alliance, is_start)
boost(s, n, alliance, is_start) ==
    IF s.ag[n].kind = "Switch" THEN Switch_boost(s, n, alliance, is_start)
    ELSE Scale_boost(s, n, alliance, is_start)

\* The vault column named column_name: its index in Vault.columns, 0 when
\* column_map has no such key.
column_index(column_name) ==
    CASE column_name = "force" -> 1
      [] column_name = "levitate" -> 2
      [] column_name = "boost" -> 3
      [] OTHER -> 0

\* The game's PowerUpQueue and a vault column's switch, by name.
power_up_queue == agent_name("", "", "PowerUpQueue")
switch_of(s, n) == agent_name(s.ag[n].alliance, "", "Switch")

\* VaultColumn.selected, for column i of vault n
selected(s, n, i) ==
    << << >>, << switch_of(s, n) >>, << agent_name("", "", "Scale") >>,
       << switch_of(s, n), agent_name("", "", "Scale") >> >>[s.ag[n].columns[i].cubes + 1]

\* The closure power_up_action of VaultColumn.activate: the column it
\* belongs to and the seesaws selected when the button was pushed.
PowerUpAction(s, n, i) ==
    [ vault |-> n, column |-> i, alliance |-> s.ag[n].alliance,
      action |-> s.ag[n].columns[i].action, selected |-> selected(s, n, i),
      switch |-> switch_of(s, n) ]

\* for seesaw in selected_seesaws: getattr(seesaw, self.action)(self.alliance, is_start)
RECURSIVE call_seesaws(_, _, _, _)
call_seesaws(s, pa, is_start, k) ==
    IF k > Len(pa.selected) \/ s.raised # "" THEN s
    ELSE call_seesaws(IF pa.action = "force"
                      THEN force(s, pa.selected[k], pa.alliance, is_start)
                      ELSE boost(s, pa.selected[k], pa.alliance, is_start),
                      pa, is_start, k + 1)

\* The rest of power_up_action(is_start) after its loop; the column keeps
\* the times of its starts and ends, and the log the call.
after_seesaws(s, pa, is_start) ==
    IF s.raised # "" THEN s
    ELSE IF is_start
    THEN Log([s EXCEPT !.ag[pa.vault].columns[pa.column].starts = Append(@, s.time)],
             Event("start", pa.vault, s.time, pa.column, pa.action))
    ELSE Log([s EXCEPT !.ag[pa.switch].active_power_up = None,
                       !.ag[pa.vault].columns[pa.column].ends = Append(@, s.time)],
             Event("end", pa.vault, s.time, pa.column, pa.action))

\* power_up_action(is_start)
power_up_action(s, pa, is_start) ==
    after_seesaws(call_seesaws(s, pa, is_start, 1), pa, is_start)

\* The second statement of PowerUpQueue._start_current_action
schedule_dequeue(s) ==
    IF s.raised # "" THEN s
    ELSE schedule_action(s, power_up_queue, POWER_UP_SECS,
                         Effect("dequeue", "", 0), "dequeue")

\* PowerUpQueue._start_current_action
start_current_action(s) ==
    schedule_dequeue(power_up_action(s, s.ag[power_up_queue].queue[1], TRUE))

\* run_or_enqueue starting every action it is given.
run_or_enqueue_at_once(s, power_up) ==
    schedule_dequeue(power_up_action(
        [s EXCEPT !.ag[power_up_queue].queue = Append(@, power_up),
                  !.ag[power_up_queue].enqueued = @ + 1], power_up, TRUE))

\* PowerUpQueue.run_or_enqueue
run_or_enqueue(s, power_up) ==
    IF s.ag[power_up_queue].queue = << >>
    THEN start_current_action(
             [s EXCEPT !.ag[power_up_queue].queue = Append(@, power_up),
                       !.ag[power_up_queue].enqueued = @ + 1])
    ELSE [s EXCEPT !.ag[power_up_queue].queue = Append(@, power_up),
                   !.ag[power_up_queue].enqueued = @ + 1]

\* `if self.queue: self._start_current_action()'
revisit_queue(s) ==
    IF s.raised # "" THEN s
    ELSE IF s.ag[power_up_queue].queue # << >> THEN start_current_action(s)
    ELSE s

\* PowerUpQueue.scheduled_action_done
PowerUpQueue_scheduled_action_done(s) ==
    revisit_queue(power_up_action(
        [s EXCEPT !.ag[power_up_queue].queue = Tail(@)],
        Head(s.ag[power_up_queue].queue), FALSE))

\* VaultColumn.activate on column i of vault n: the value returned
activate_result(s, n, i) ==
    LET column == s.ag[n].columns[i] IN
    IF column.played THEN FALSE
    ELSE IF column.action = "levitate" THEN column.cubes = 3
    ELSE column.cubes > 0 /\ s.ag[switch_of(s, n)].active_power_up = None

\* activate playing a column whether or not it was played before.
activate_replayed(s, n, i) ==
    IF s.ag[n].columns[i].action = "levitate"
    THEN IF s.ag[n].columns[i].cubes = 3
         THEN [s EXCEPT !.ag[switch_of(s, n)].levitate_activated = TRUE,
                        !.ag[n].columns[i].played = TRUE]
         ELSE s
    ELSE IF s.ag[n].columns[i].cubes > 0
            /\ s.ag[switch_of(s, n)].active_power_up = None
    THEN run_or_enqueue(
             [s EXCEPT !.ag[n].columns[i].played = TRUE,
                       !.ag[n].columns[i].order = s.ag[power_up_queue].enqueued + 1,
                       !.ag[switch_of(s, n)].active_power_up =
                           Some(s.ag[n].columns[i].action)],
             PowerUpAction(s, n, i))
    ELSE s

\* activate without the interlock of the switch.
activate_unlocked(s, n, i) ==
    IF s.ag[n].columns[i].played THEN s
    ELSE IF s.ag[n].columns[i].action = "levitate"
    THEN IF s.ag[n].columns[i].cubes = 3
         THEN [s EXCEPT !.ag[switch_of(s, n)].levitate_activated = TRUE,
                        !.ag[n].columns[i].played = TRUE]
         ELSE s
    ELSE IF s.ag[n].columns[i].cubes > 0
    THEN run_or_enqueue(
             [s EXCEPT !.ag[n].columns[i].played = TRUE,
                       !.ag[n].columns[i].order = s.ag[power_up_queue].enqueued + 1,
                       !.ag[switch_of(s, n)].active_power_up =
                           Some(s.ag[n].columns[i].action)],
             PowerUpAction(s, n, i))
    ELSE s

\* VaultColumn.activate on column i of vault n: the state it leaves
activate(s, n, i) ==
    IF s.ag[n].columns[i].played THEN s
    ELSE IF s.ag[n].columns[i].action = "levitate"
    THEN IF s.ag[n].columns[i].cubes = 3
         THEN [s EXCEPT !.ag[switch_of(s, n)].levitate_activated = TRUE,
                        !.ag[n].columns[i].played = TRUE]
         ELSE s
    ELSE IF s.ag[n].columns[i].cubes > 0
            /\ s.ag[switch_of(s, n)].active_power_up = None
    THEN run_or_enqueue(
             [s EXCEPT !.ag[n].columns[i].played = TRUE,
                       !.ag[n].columns[i].order = s.ag[power_up_queue].enqueued + 1,
                       !.ag[switch_of(s, n)].active_power_up =
                           Some(s.ag[n].columns[i].action)],
             PowerUpAction(s, n, i))
    ELSE s

\* Human.put_to_vault, Human.activate_power_up
put_to_vault(s, n, column_name) ==
    schedule_action(s, n, s.ag[n].put_to_vault_time,
                    Effect("put_to_vault", column_name, 0),
                    "put to " \o column_name \o " Vault")
activate_power_up(s, n, column_name) ==
    schedule_action(s, n, s.ag[n].activate_power_up_time,
                    Effect("activate", column_name, 0),
                    "activate " \o column_name \o " Power-up")

\* self.vault.column_map[column_name]: what the lookup raises, "" if it
\* finds the column
column_lookup(s, n, column_name) ==
    IF s.ag[n].vault = None THEN "AttributeError"
    ELSE IF column_index(column_name) = 0 THEN "KeyError"
    ELSE ""

\* finish() of Human.put_to_vault
put_to_vault_finish(s, n, column_name) ==
    IF s.ag[n].cubes > 0
    THEN IF column_lookup(s, n, column_name) # ""
         THEN [s EXCEPT !.ag[n].cubes = @ - 1,
                        !.raised = column_lookup(s, n, column_name)]
         ELSE add_cube([s EXCEPT !.ag[n].cubes = @ - 1], s.ag[n].vault[1],
                       column_index(column_name), 1)
    ELSE s

\* finish() of Human.activate_power_up; the log keeps what activate returned
activate_finish(s, n, column_name) ==
    IF column_lookup(s, n, column_name) # ""
    THEN [s EXCEPT !.raised = column_lookup(s, n, column_name)]
    ELSE activate(Log(s, Event("activate", s.ag[n].vault[1], s.time,
                               column_index(column_name),
                               IF activate_result(s, s.ag[n].vault[1],
                                                  column_index(column_name))
                               THEN "True" ELSE "False")),
                  s.ag[n].vault[1], column_index(column_name))

\* The completion code of the actions: what action() does in Agent.update.
\*   doit        the test's effect (a counter)
\*   done        lambda: "done" (wait, wait_for_teleop)
\*   reschedule  a caller's effect that schedules the agent's next action
\*   arrive, pickup, drop, place, climb   the closures of the Robot methods
\*   put_through_portal, put_to_vault, activate   the closures of the Human
\*                                        methods
\*   dequeue     lambda: () (PowerUpQueue._start_current_action)
\* The pickup closure taking a cube whenever the robot has room, without
\* looking at the cubes of the location.
pickup_finish_unchecked(s, n) ==
    LET me == s.ag[n] IN
    IF me.cubes = 0
    THEN [s EXCEPT !.cubes[me.location] = @ - 1, !.ag[n].cubes = @ + 1]
    ELSE s

\* finish() of Robot.pickup
pickup_finish(s, n) ==
    LET me == s.ag[n] IN
    IF s.cubes[me.location] > 0 /\ me.cubes = 0
    THEN [s EXCEPT !.cubes[me.location] = @ - 1, !.ag[n].cubes = @ + 1]
    ELSE s

\* The drop closure without its test of the robot's cubes.
drop_finish_unchecked(s, n) ==
    LET me == s.ag[n] IN
    [s EXCEPT !.cubes[me.location] = @ + 1, !.ag[n].cubes = @ - 1]

\* finish() of Robot.drop
drop_finish(s, n) ==
    LET me == s.ag[n] IN
    IF me.cubes > 0
    THEN [s EXCEPT !.cubes[me.location] = @ + 1, !.ag[n].cubes = @ - 1]
    ELSE s

\* finish() of Robot.place
place_finish(s, n) ==
    LET me == s.ag[n]
        plate == s.plates[me.location]
    IN IF plate # None /\ me.cubes > 0
       THEN [s EXCEPT !.plate_cubes[plate[1]] = @ + 1, !.ag[n].cubes = @ - 1]
       ELSE s

\* finish() of Robot.climb
climb_finish(s, n) ==
    IF at_platform(s, n) THEN [s EXCEPT !.ag[n].climbed = "Climbed"] ELSE s

\* arrive() of Robot.drive_to without its test of the time.
arrive_untimed(s, n, destination) ==
    [s EXCEPT !.ag[n].location = destination,
              !.ag[n].auto_run =
                  IF s.ag[n].auto_run = NOT_YET /\ is_inner_zone(destination)
                  THEN ACHIEVED ELSE @]

\* arrive() of Robot.drive_to
arrive(s, n, destination) ==
    [s EXCEPT !.ag[n].location = destination,
              !.ag[n].auto_run =
                  IF s.ag[n].auto_run = NOT_YET /\ is_inner_zone(destination)
                     /\ s.time <= AUTONOMOUS_SECS + 1
                  THEN ACHIEVED ELSE @]

\* finish() of Human.get_from_exchange (a human at a portal has no
\* exchange_plate: None.cubes raises AttributeError)
get_from_exchange_finish(s, n) ==
    LET me == s.ag[n] IN
    IF me.exchange_plate = None THEN [s EXCEPT !.raised = "AttributeError"]
    ELSE IF s.plate_cubes[me.exchange_plate[1]] > 0
    THEN [s EXCEPT !.plate_cubes[me.exchange_plate[1]] = @ - 1, !.ag[n].cubes = @ + 1]
    ELSE s

\* finish() of Human.put_to_exchange (a human at a portal has no
\* exchange_zone: simulation.cubes[None] raises KeyError)
put_to_exchange_finish(s, n) ==
    LET me == s.ag[n] IN
    IF me.cubes > 0
    THEN IF me.exchange_zone = None
         THEN [s EXCEPT !.ag[n].cubes = @ - 1, !.raised = "KeyError"]
         ELSE [s EXCEPT !.ag[n].cubes = @ - 1, !.cubes[me.exchange_zone[1]] = @ + 1]
    ELSE s

\* finish() of Human.put_through_portal
put_through_portal_finish(s, n) ==
    LET me == s.ag[n] IN
    IF me.cubes > 0
    THEN [s EXCEPT !.ag[n].cubes = @ - 1, !.cubes[me.portal[1]] = @ + 1]
    ELSE s

run_action(s, n, a) ==
    CASE a.fn = "doit" -> [s EXCEPT !.test_actions_done = @ + 1]
      [] a.fn = "done" -> s
      [] a.fn = "reschedule" ->
            schedule_action(s, n, a.secs, Effect("doit", "", 0), "inc")
      [] a.fn = "arrive" -> arrive(s, n, a.dest)
      [] a.fn = "pickup" -> pickup_finish(s, n)
      [] a.fn = "drop" -> drop_finish(s, n)
      [] a.fn = "place" -> place_finish(s, n)
      [] a.fn = "climb" -> climb_finish(s, n)
      [] a.fn = "put_through_portal" -> put_through_portal_finish(s, n)
      [] a.fn = "get_from_exchange" -> get_from_exchange_finish(s, n)
      [] a.fn = "put_to_exchange" -> put_to_exchange_finish(s, n)
      [] a.fn = "put_to_vault" -> put_to_vault_finish(s, n, a.dest)
      [] a.fn = "activate" -> activate_finish(s, n, a.dest)
      [] a.fn = "dequeue" -> s
      [] OTHER -> s

\* ------------------------------------------------------------------------
\* Deciders
\* ------------------------------------------------------------------------
\* One statement of a decider's body.
run_stmt(s, n, st) ==
    CASE st.op = "cubes" -> [s EXCEPT !.ag[n].cubes = st.secs]
      [] st.op = "place_time" -> [s EXCEPT !.ag[n].place_time = @ + st.secs]
      [] st.op = "schedule_action" ->
            schedule_action(s, n, st.secs, Effect(st.fn, "", st.secs), st.fn)
      [] st.op = "wait" -> wait(s, n, st.secs)
      [] st.op = "drive_to" -> drive_to(s, n, st.dest)
      [] st.op = "pickup" -> pickup(s, n)
      [] st.op = "drop" -> drop(s, n)
      [] st.op = "place" -> place(s, n)
      [] st.op = "climb" -> climb(s, n)
      [] st.op = "put_through_portal_time" ->
            [s EXCEPT !.ag[n].put_through_portal_time = st.secs]
      [] st.op = "put_through_portal" -> put_through_portal(s, n)
      [] OTHER -> s

RECURSIVE run_stmts(_, _, _, _)
run_stmts(s, n, stmts, i) ==
    IF i > Len(stmts) \/ s.raised # "" THEN s
    ELSE run_stmts(run_stmt(s, n, stmts[i]), n, stmts, i + 1)

\* self.behavior = self.player.next(): the generator runs to its next
\* yield.  A step whose yield is inside `if self.wait_for_teleop():' yields
\* only when the call returned True; otherwise the generator runs on.
RECURSIVE player_next(_, _)
\* The generator reaches the yield of `step', having run its statements;
\* an exception in them leaves next() before anything is yielded.
player_yield(s, n, step) ==
    IF s.raised # "" THEN s
    ELSE IF step.cond = "wait_for_teleop"
    THEN IF wait_for_teleop_result(s, n)
         THEN [wait_for_teleop(s, n) EXCEPT !.ag[n].behavior = step.label]
         ELSE player_next(s, n)
    ELSE [s EXCEPT !.ag[n].behavior = step.label]
\* A generator whose terminal loop waits a second before each yield.
player_next_waiting(s, n) ==
    IF s.ag[n].player.pos >= Len(s.ag[n].player.script)
    THEN [wait(s, n, 1) EXCEPT !.ag[n].behavior = s.ag[n].player.terminal]
    ELSE player_yield(
             run_stmts([s EXCEPT !.ag[n].player.pos = @ + 1], n,
                       s.ag[n].player.script[s.ag[n].player.pos + 1].do, 1),
             n, s.ag[n].player.script[s.ag[n].player.pos + 1])

player_next(s, n) ==
    IF s.ag[n].player.pos >= Len(s.ag[n].player.script)
    THEN [s EXCEPT !.ag[n].behavior = s.ag[n].player.terminal]
    ELSE player_yield(
             run_stmts([s EXCEPT !.ag[n].player.pos = @ + 1], n,
                       s.ag[n].player.script[s.ag[n].player.pos + 1].do, 1),
             n, s.ag[n].player.script[s.ag[n].player.pos + 1])

\* Agent.scheduled_action_done and its overrides (Agent99 of the test,
\* Robot, Human, PowerUpQueue).
scheduled_action_done(s, n) ==
    LET s1 == Log(s, Event("done", n, s.time, 0, ""))
        kind == s.ag[n].kind
    IN CASE kind = "Agent99" -> [s1 EXCEPT !.ag[n].actions = @ + 1]
         [] kind \in {"Robot", "Human"} ->
              player_next(Log(s1, Event("next", n, s.time, 0, "")), n)
         [] kind = "PowerUpQueue" -> PowerUpQueue_scheduled_action_done(s1)
         [] OTHER -> s1

\* Robot.set_player, Human.set_player
set_player(s, n, generator) == [s EXCEPT !.ag[n].player = generator]

\* ------------------------------------------------------------------------
\* update and tick
\* ------------------------------------------------------------------------
\* How an agent's pending action stands against a time (for the log).
Pending(a, time) ==
    IF a.scheduled_action = None THEN "none"
    ELSE IF a.eta = None THEN "noeta"
    ELSE IF a.eta[1] = time THEN "due"
    ELSE IF a.eta[1] > time THEN "later"
    ELSE "past"

\* The rest of Agent.update once action() has returned or raised.
after_action(s, n) == IF s.raised # "" THEN s ELSE scheduled_action_done(s, n)

\* Agent.update running the effect and the hook before it clears the
\* stored action (run-then-clear).
Agent_update_run_first(s, n, time) ==
    IF s.ag[n].eta = Some(time)
    THEN LET stored == s.ag[n].scheduled_action
         IN IF stored = None THEN [s EXCEPT !.raised = "TypeError"]
            ELSE LET action == stored[1]
                     s2 == scheduled_action_done(
                               run_action(
                                   [Log(s, [Event("action", n, time, action.id,
                                                  Pending(s.ag[n], time))
                                              EXCEPT !.at = action.at,
                                                     !.delay = action.delay,
                                                     !.fn = action.fn])
                                      EXCEPT !.runs[action.id] = @ + 1],
                                   n, action),
                               n)
                 IN Log([s2 EXCEPT !.ag[n].eta = None,
                                   !.ag[n].scheduled_action = None,
                                   !.ag[n].scheduled_action_description = ""],
                        Event("clear", n, time, 0, ""))
    ELSE s

\* Agent.update.  (Calling a stored None raises TypeError; the code never
\* stores an eta without an action.)
Agent_update(s, n, time) ==
    IF s.ag[n].eta = Some(time)
    THEN LET stored == s.ag[n].scheduled_action
             s1 == Log([s EXCEPT !.ag[n].eta = None,
                                 !.ag[n].scheduled_action = None,
                                 !.ag[n].scheduled_action_description = ""],
                       Event("clear", n, time, 0, ""))
         IN IF stored = None THEN [s1 EXCEPT !.raised = "TypeError"]
            ELSE LET action == stored[1]
                     s2 == run_action(
                               [Log(s1, [Event("action", n, time, action.id,
                                               Pending(s1.ag[n], time))
                                           EXCEPT !.at = action.at,
                                                  !.delay = action.delay,
                                                  !.fn = action.fn])
                                  EXCEPT !.runs[action.id] = @ + 1],
                               n, action)
                 IN after_action(s2, n)
    ELSE s

\* The rest of Robot.update and Human.update once the generator was started.
after_start(s, n, time) == IF s.raised # "" THEN s ELSE Agent_update(s, n, time)

\* Robot.update
Robot_update(s, n, time) ==
    LET s1 == IF s.ag[n].scheduled_action = None
              THEN scheduled_action_done(Log(s, Event("idle", n, time, 0, "")), n)
              ELSE s
    IN after_start(s1, n, time)

\* Human.update
Human_update(s, n, time) ==
    LET s1 == IF s.ag[n].scheduled_action = None
              THEN scheduled_action_done(Log(s, Event("idle", n, time, 0, "")), n)
              ELSE s
    IN after_start(s1, n, time)

\* agent.update(time), by the agent's class
update(s, n, time) ==
    LET s1 == Log(s, Event("update", n, time, 0, Pending(s.ag[n], time)))
    IN CASE s.ag[n].kind = "Robot" -> Robot_update(s1, n, time)
         [] s.ag[n].kind = "Human" -> Human_update(s1, n, time)
         [] OTHER -> Agent_update(s1, n, time)

\* The update pass over an unordered dict: here, last agent first.
RECURSIVE update_all_reversed(_, _, _)
update_all_reversed(s, i, time) ==
    IF i > Len(s.agents) THEN s
    ELSE update(update_all_reversed(s, i + 1, time), s.agents[i], time)

\* for agent in self.agents.itervalues(): agent.update(time)
RECURSIVE update_all(_, _, _)
update_all(s, i, time) ==
    IF i > Len(s.agents) \/ s.raised # "" THEN s
    ELSE update_all(update(s, s.agents[i], time), i + 1, time)

\* tick testing the old time against GAME_SECS.
tick_late_check(s) ==
    IF s.time > GAME_SECS
    THEN [s EXCEPT !.raised = "GameOver"]
    ELSE update_all([s EXCEPT !.time = s.time + 1], 1, s.time + 1)

\* tick storing the new time before it tests it.
tick_then_check(s) ==
    IF s.time + 1 > GAME_SECS
    THEN [s EXCEPT !.time = s.time + 1, !.raised = "GameOver"]
    ELSE update_all([s EXCEPT !.time = s.time + 1], 1, s.time + 1)

\* tick raising GameOver one second early (time >= GAME_SECS).
tick_early_over(s) ==
    IF s.time + 1 >= GAME_SECS
    THEN [s EXCEPT !.raised = "GameOver"]
    ELSE update_all([s EXCEPT !.time = s.time + 1], 1, s.time + 1)

\* Simulation.tick
tick(s) ==
    LET time == s.time + 1
    IN IF time > GAME_SECS
       THEN [s EXCEPT !.raised = "GameOver"]
       ELSE update_all([s EXCEPT !.time = time], 1, time)

\* ------------------------------------------------------------------------
\* Seesaws, vaults and the power-up queue (state and scoring)
\* ------------------------------------------------------------------------
\* PowerUpQueue.__init__ (enqueued: history, the actions given to the queue
\* so far)
PowerUpQueue_init(s) ==
    Agent_init(s, agent_name("", "", "PowerUpQueue"),
        [ kind |-> "PowerUpQueue", alliance |-> "", position |-> "",
          eta |-> None, scheduled_action |-> None,
          scheduled_action_description |-> "",
          queue |-> << >>, enqueued |-> 0 ])

\* Scale._plate_name and Switch._plate_name
plate_name(typename, alliance, front_back) ==
    IF typename = "Switch" THEN front_back \o " " \o alliance \o " " \o typename
    ELSE front_back \o " " \o typename

\* Scale.__init__ and Switch.__init__, with _setup_locations
Seesaw_init(s, typename, front_color, alliance) ==
    LET front == plate_name(typename, alliance, "Front")
        back == plate_name(typename, alliance, "Back")
        s1 == Agent_init(s, agent_name(alliance, "", typename),
                  [ kind |-> typename, alliance |-> alliance, position |-> "",
                    eta |-> None, scheduled_action |-> None,
                    scheduled_action_description |-> "",
                    front_color |-> front_color,
                    front_plate |-> front, back_plate |-> back,
                    forced |-> FALSE, force_alliance |-> "",
                    boosted |-> FALSE, boost_alliance |-> "",
                    previous_owner |-> "",
                    active_power_up |-> None, levitate_activated |-> FALSE ])
        front_loc == IF typename = "Switch"
                     THEN find_location1(alliance, "FRONT_INNER_ZONE")
                     ELSE "FRONT_NULL_TERRITORY"
        back_loc == IF typename = "Switch"
                    THEN find_location1(alliance, "BACK_INNER_ZONE")
                    ELSE "BACK_NULL_TERRITORY"
    IN [s1 EXCEPT !.plates[front_loc] = Some(front),
                  !.plates[back_loc] = Some(back),
                  !.plate_cubes = [p \in DOMAIN s.plate_cubes \cup {front, back} |->
                                     IF p \in {front, back} THEN 0 ELSE s.plate_cubes[p]]]

\* VaultColumn.__init__ and Vault.__init__.  History kept with the column:
\* order (the how-manyth action given to the queue its power-up was, 0 if
\* none), starts and ends (the times its power_up_action started and ended).
VaultColumn_init(action) ==
    [action |-> action, cubes |-> 0, previous_cubes |-> 0, played |-> FALSE,
     order |-> 0, starts |-> << >>, ends |-> << >>]
Vault_init(s, alliance) ==
    Agent_init(s, agent_name(alliance, "", "Vault"),
        [ kind |-> "Vault", alliance |-> alliance, position |-> "",
          eta |-> None, scheduled_action |-> None,
          scheduled_action_description |-> "",
          columns |-> << VaultColumn_init("force"), VaultColumn_init("levitate"),
                         VaultColumn_init("boost") >>,
          scored |-> ZERO ])

\* Scale.owner: RED, "" or BLUE
Scale_owner(s, n) ==
    LET me == s.ag[n]
        front == s.plate_cubes[me.front_plate]
        back == s.plate_cubes[me.back_plate]
    IN IF me.forced THEN me.force_alliance
       ELSE IF front < back THEN opposite(me.front_color)
       ELSE IF front = back THEN ""
       ELSE me.front_color

\* Switch.owner returning the owner Scale.owner finds.
Switch_owner_unfiltered(s, n) == Scale_owner(s, n)

\* Switch.owner
Switch_owner(s, n) ==
    LET o == Scale_owner(s, n) IN IF o = s.ag[n].alliance THEN o ELSE ""

owner(s, n) == IF s.ag[n].kind = "Switch" THEN Switch_owner(s, n) ELSE Scale_owner(s, n)

\* Scale.score without the points for a new owner.
Scale_score_without_bonus(s, n) ==
    pick(owner(s, n),
         IF Agent_autonomous(s, n)
            \/ (s.ag[n].boosted /\ s.ag[n].boost_alliance = owner(s, n))
         THEN 2 ELSE 1)

\* Scale.score: the points returned
Scale_score(s, n) ==
    LET me == s.ag[n]
        o == owner(s, n)
        boosted == me.boosted /\ me.boost_alliance = o
        value == IF Agent_autonomous(s, n) \/ boosted THEN 2 ELSE 1
    IN pick(o, IF o # me.previous_owner THEN value * 2 ELSE value)

\* VaultColumn.score summed by Vault.score: the points returned
RECURSIVE Vault_score_from(_, _, _)
Vault_score_from(s, n, i) ==
    IF i > Len(s.ag[n].columns) THEN ZERO
    ELSE add_score(pick(s.ag[n].alliance,
                        5 * (s.ag[n].columns[i].cubes - s.ag[n].columns[i].previous_cubes)),
                   Vault_score_from(s, n, i + 1))
Vault_score(s, n) == Vault_score_from(s, n, 1)

\* Robot.score: the points returned
Robot_score(s, n) ==
    IF s.ag[n].auto_run = ACHIEVED THEN pick(s.ag[n].alliance, 5) ELSE ZERO

\* agent.score(): the points returned, by the agent's class (Agent.score
\* for the classes that do not override it)
agent_score(s, n) ==
    CASE s.ag[n].kind = "Robot" -> Robot_score(s, n)
      [] s.ag[n].kind \in {"Scale", "Switch"} -> Scale_score(s, n)
      [] s.ag[n].kind = "Vault" -> Vault_score(s, n)
      [] OTHER -> ZERO

\* Vault.score: the state it leaves, previous_cubes brought up to date in
\* every column (scored: history, the sum of the points it returned so far)
Vault_after_score(s, n) ==
    [s EXCEPT !.ag[n].columns =
                 [i \in 1..Len(s.ag[n].columns) |->
                    [s.ag[n].columns[i] EXCEPT
                       !.previous_cubes = s.ag[n].columns[i].cubes]],
              !.ag[n].scored = add_score(@, Vault_score(s, n))]

\* agent.score(): the state it leaves (auto_run counted, previous_owner
\* and previous_cubes brought up to date)
after_score(s, n) ==
    CASE s.ag[n].kind = "Robot" ->
            [s EXCEPT !.ag[n].auto_run = IF @ = ACHIEVED THEN COUNTED ELSE @]
      [] s.ag[n].kind \in {"Scale", "Switch"} ->
            [s EXCEPT !.ag[n].previous_owner = owner(s, n)]
      [] s.ag[n].kind = "Vault" -> Vault_after_score(s, n)
      [] OTHER -> s

\* ------------------------------------------------------------------------
\* The example players of simulation.py
\* ------------------------------------------------------------------------
\* example_robot_player: player1, player2, player3 by robot.position
example_robot_player(alliance, position) ==
    LET switch_side == IF SWITCH_FRONT_COLOR = alliance THEN "FRONT" ELSE "BACK"
        scale_side == IF SCALE_FRONT_COLOR = alliance THEN "FRONT" ELSE "BACK"
        preload == Stmt("cubes", "", 1, "")
        go(dest) == Stmt("drive_to", dest, 0, "")
        put == Stmt("place", "", 0, "")
    IN CASE position = "1" ->
              Player(<< Step(<< preload,
                                go(find_location2(alliance, switch_side, "INNER_ZONE")) >>,
                             "always", "auto-run to my Switch plate"),
                        Step(<< put >>, "always", "place a Cube on the Switch") >>,
                     "done")
         [] position = "2" ->
              Player(<< Step(<< preload,
                                go(find_location2(alliance, scale_side, "INNER_ZONE")) >>,
                             "always", "auto-run"),
                        Step(<< go(find_location1(scale_side, "NULL_TERRITORY")) >>,
                             "always", "go to my Scale plate"),
                        Step(<< put >>, "always", "place a Cube on the Scale") >>,
                     "done")
         [] OTHER ->
              Player(<< Step(<< preload, go(find_location1(alliance, "EXCHANGE_ZONE")) >>,
                             "always", "to Exchange"),
                        Step(<< put >>, "always", "place a Cube in the Exchange"),
                        Step(<< go(find_location1(alliance, "OUTER_ZONE")) >>,
                             "always", "auto-run"),
                        Step(<< go(find_location2(alliance, "FRONT", "INNER_ZONE")) >>,
                             "always", "auto-run") >>,
                     "done")

\* A robot_player for the end of the match: robot 1 drives onto its
\* platform and climbs, robot 2 parks on the platform, the others stay.
climb_player(alliance, position) ==
    LET go(dest) == Stmt("drive_to", dest, 0, "")
        to_platform ==
            << Step(<< go(find_location2(alliance, "FRONT", "INNER_ZONE")) >>,
                    "always", "auto-run"),
               Step(<< go(find_location1(alliance, "PLATFORM")) >>,
                    "always", "to my Platform") >>
    IN CASE position = "1" ->
              Player(to_platform \o << Step(<< Stmt("climb", "", 0, "") >>,
                                            "always", "climb") >>, "done")
         [] position = "2" -> Player(to_platform, "done")
         [] OTHER -> Player(<< >>, "done")

\* A robot_player that leaves no robot off its platform: RED's robot 1 and
\* all of BLUE's robots climb, RED's robots 2 and 3 park on the platform.
endgame_player(alliance, position) ==
    climb_player(alliance, IF alliance = BLUE THEN "1"
                           ELSE IF position = "1" THEN "1" ELSE "2")

\* A robot_player around the end of the autonomous period: robot 1 waits
\* 9 seconds and robot 2 waits 10 seconds before the auto-run drive of 6
\* seconds, robot 3 stays.
auto_player(alliance, position) ==
    LET run(secs) ==
            Player(<< Step(<< Stmt("wait", "", secs, "") >>, "always", "wait"),
                      Step(<< Stmt("drive_to",
                                   find_location2(alliance, "FRONT", "INNER_ZONE"),
                                   0, "") >>,
                           "always", "auto-run") >>, "done")
    IN CASE position = "1" -> run(9)
         [] position = "2" -> run(10)
         [] OTHER -> Player(<< >>, "done")

\* A robot_player that sends only RED's robot 2 to the Scale, as
\* example_robot_player does, and leaves the other robots where they are.
scale_player(alliance, position) ==
    IF alliance = RED /\ position = "2"
    THEN example_robot_player(alliance, position)
    ELSE Player(<< >>, "done")

\* A robot_player that sends each robot 1 with a cube to the front plate of
\* its switch, whatever the colour of that plate, and leaves the other
\* robots where they are.
front_player(alliance, position) ==
    IF position = "1"
    THEN Player(<< Step(<< Stmt("cubes", "", 1, ""),
                           Stmt("drive_to",
                                find_location2(alliance, "FRONT", "INNER_ZONE"),
                                0, "") >>,
                        "always", "to the front plate of my Switch"),
                   Step(<< Stmt("place", "", 0, "") >>,
                        "always", "place a Cube on the Switch") >>,
                "done")
    ELSE Player(<< >>, "done")

\* example_human_player
example_human_player ==
    Player(<< Step(<< >>, "wait_for_teleop", "wait for Teleop") >>, "done")

\* A human_player for the portal humans: it sets how long the human takes
\* to put a cube through the portal ("The Player can adjust these
\* parameters to model Human differences") and puts two cubes through.
portal_player(seconds) ==
    Player(<< Step(<< Stmt("put_through_portal_time", "", seconds, ""),
                      Stmt("put_through_portal", "", 0, "") >>,
                   "always", "put a Cube through the Portal"),
              Step(<< Stmt("put_through_portal", "", 0, "") >>,
                   "always", "put a Cube through the Portal") >>,
           "done")

\* ------------------------------------------------------------------------
\* PowerUpGame
\* ------------------------------------------------------------------------
Positions == << "1", "2", "3" >>
HumanPositions == << "FRONT", "BACK", "STATION" >>

\* [Robot(self, alliance, position) for alliance in ALLIANCES for position in 1..3]
RECURSIVE make_robots(_, _)
make_robots(s, k) ==
    IF k > 6 THEN s
    ELSE make_robots(Robot_init(s, ALLIANCES[((k - 1) \div 3) + 1],
                                Positions[((k - 1) % 3) + 1]), k + 1)

\* [Human(self, alliance, position, vault) for alliance ... for position ...]
RECURSIVE make_humans(_, _)
make_humans(s, k) ==
    IF k > 6 THEN s
    ELSE make_humans(Human_init(s, ALLIANCES[((k - 1) \div 3) + 1],
                                HumanPositions[((k - 1) % 3) + 1]), k + 1)

\* The robots and humans of the game, in construction order.
robots_of(s) == SelectSeq(s.agents, LAMBDA n : s.ag[n].kind = "Robot")
humans_of(s) == SelectSeq(s.agents, LAMBDA n : s.ag[n].kind = "Human")

\* [robot_player(robot) for robot in self.robots], and the same for the
\* humans.  The player functions are the game's parameters: the example
\* players of simulation.py, or a function that attaches nothing.
RECURSIVE attach_players(_, _, _, _)
attach_players(s, names, k, player_fn) ==
    IF k > Len(names) THEN s
    ELSE LET n == names[k]
             s1 == CASE player_fn = "example_robot_player" ->
                           set_player(s, n, example_robot_player(s.ag[n].alliance,
                                                                 s.ag[n].position))
                      [] player_fn = "scale_player" ->
                           set_player(s, n, scale_player(s.ag[n].alliance,
                                                         s.ag[n].position))
                      [] player_fn = "front_player" ->
                           set_player(s, n, front_player(s.ag[n].alliance,
                                                         s.ag[n].position))
                      [] player_fn = "auto_player" ->
                           set_player(s, n, auto_player(s.ag[n].alliance,
                                                        s.ag[n].position))
                      [] player_fn = "endgame_player" ->
                           set_player(s, n, endgame_player(s.ag[n].alliance,
                                                           s.ag[n].position))
                      [] player_fn = "climb_player" ->
                           set_player(s, n, climb_player(s.ag[n].alliance,
                                                         s.ag[n].position))
                      [] player_fn = "example_human_player" ->
                           set_player(s, n, example_human_player)
                      [] player_fn \in {"portal_player", "instant_portal_player"}
                         /\ s.ag[n].position # "STATION" ->
                           set_player(s, n, portal_player(
                               IF player_fn = "portal_player" THEN 3 ELSE 0))
                      [] OTHER -> s
         IN attach_players(s1, names, k + 1, player_fn)

\* sum(robot.cubes for robot in self.robots if robot.alliance is alliance)
RECURSIVE cubes_in_robots(_, _, _, _)
cubes_in_robots(s, names, k, alliance) ==
    IF k > Len(names) THEN 0
    ELSE (IF s.ag[names[k]].alliance = alliance THEN s.ag[names[k]].cubes ELSE 0)
         + cubes_in_robots(s, names, k + 1, alliance)

\* The loop giving the remaining cubes to the portal humans.
RECURSIVE give_portal_cubes(_, _)
give_portal_cubes(s, k) ==
    IF k > Len(ALLIANCES) THEN s
    ELSE LET alliance == ALLIANCES[k]
             portal_cubes == 7 * 2 - cubes_in_robots(s, robots_of(s), 1, alliance)
             front_cubes == portal_cubes \div 2
         IN give_portal_cubes(
                [s EXCEPT !.ag[agent_name(alliance, "FRONT", "Human")].cubes = front_cubes,
                          !.ag[agent_name(alliance, "BACK", "Human")].cubes =
                              portal_cubes - front_cubes],
                k + 1)

\* PowerUpGame.__init__
PowerUpGame_init(robot_player, human_player) ==
    LET s1 == make_robots(PowerUpQueue_init(Simulation_init), 1)
        s2 == Seesaw_init(Seesaw_init(Seesaw_init(s1, "Switch", SWITCH_FRONT_COLOR, RED),
                                      "Switch", SWITCH_FRONT_COLOR, BLUE),
                          "Scale", SCALE_FRONT_COLOR, "")
        s3 == make_humans(Vault_init(Vault_init(s2, RED), BLUE), 1)
        s4 == attach_players(s3, robots_of(s3), 1, robot_player)
        s5 == attach_players(s4, humans_of(s4), 1, human_player)
    IN give_portal_cubes(s5, 1)

\* sum((agent.score() for agent in self.agents.itervalues()), start): the
\* state after the calls, with the sum left in s.score.
RECURSIVE score_all(_, _)
score_all(s, i) ==
    IF i > Len(s.agents) THEN s
    ELSE LET n == s.agents[i]
             points == agent_score(s, n)
             s1 == [Log(after_score(s, n),
                        Event("score", n, points.red, points.blue, ""))
                      EXCEPT !.earned = add_score(@, points)]
         IN score_all([s1 EXCEPT !.score = add_score(@, points)], i + 1)

\* PowerUpGame.tick after super().tick() returned: the switch owners at
\* the end of the autonomous period, then the scoring pass.
note_auto_switch_owners(s) ==
    IF s.time = AUTONOMOUS_SECS
    THEN [s EXCEPT !.auto_switch_owners =
             Score(IF owner(s, "RED Switch") = RED THEN 1 ELSE 0,
                   IF owner(s, "BLUE Switch") = BLUE THEN 1 ELSE 0)]
    ELSE s
\* The scoring pass summing from Score.ZERO instead of self.score.
after_tick_restart(s) ==
    IF s.raised # "" THEN s
    ELSE score_all([note_auto_switch_owners(s) EXCEPT !.score = ZERO], 1)

after_tick(s) ==
    IF s.raised # "" THEN s ELSE score_all(note_auto_switch_owners(s), 1)

\* PowerUpGame.tick
PowerUpGame_tick(s) == after_tick(tick(s))

\* picks[0] of the robots in their order, unsorted.
levitate_pick_unsorted(s, alliance) ==
    SelectSeq(robots_of(s), LAMBDA n : s.ag[n].alliance = alliance)[1]

\* The levitate credit of PowerUpGame.endgame_score for one alliance:
\* picks[0] of the robots sorted (stably) by bool(climbed) * 2 + at_platform.
levitate_key(s, n) ==
    (IF s.ag[n].climbed # "" THEN 2 ELSE 0) + (IF at_platform(s, n) THEN 1 ELSE 0)
levitate_pick(s, alliance) ==
    LET robots == SelectSeq(robots_of(s), LAMBDA n : s.ag[n].alliance = alliance)
        best == CHOOSE i \in 1..Len(robots) :
                    \A j \in 1..Len(robots) :
                        \/ levitate_key(s, robots[i]) < levitate_key(s, robots[j])
                        \/ levitate_key(s, robots[i]) = levitate_key(s, robots[j]) /\ i <= j
    IN robots[best]
credit_levitate(s, alliance) ==
    IF s.ag[agent_name(alliance, "", "Switch")].levitate_activated
    THEN [s EXCEPT !.ag[levitate_pick(s, alliance)].climbed = "Levitated"]
    ELSE s

\* Robot.endgame_score, and Agent.endgame_score for the other classes
agent_endgame_score(s, n) ==
    IF s.ag[n].kind = "Robot"
    THEN pick(s.ag[n].alliance,
              IF s.ag[n].climbed # "" THEN 30 ELSE IF at_platform(s, n) THEN 5 ELSE 0)
    ELSE ZERO

RECURSIVE endgame_sum(_, _)
endgame_sum(s, i) ==
    IF i > Len(s.agents) THEN ZERO
    ELSE add_score(agent_endgame_score(s, s.agents[i]), endgame_sum(s, i + 1))

\* The history of the endgame_score() calls, one per agent in
\* registration order.
RECURSIVE log_endgames(_, _)
log_endgames(s, i) ==
    IF i > Len(s.agents) THEN s
    ELSE log_endgames(
             Log(s, Event("endgame", s.agents[i],
                          agent_endgame_score(s, s.agents[i]).red,
                          agent_endgame_score(s, s.agents[i]).blue, "")),
             i + 1)

\* self.score = self.endgame_score(): the running score is lost.
add_endgame_score_replacing(s) ==
    LET s1 == credit_levitate(credit_levitate(s, RED), BLUE)
    IN [log_endgames(s1, 1) EXCEPT !.score = endgame_sum(s1, 1)]

\* self.score += self.endgame_score()
add_endgame_score(s) ==
    LET s1 == credit_levitate(credit_levitate(s, RED), BLUE)
    IN [log_endgames(s1, 1) EXCEPT !.score = add_score(@, endgame_sum(s1, 1))]

\* ------------------------------------------------------------------------
\* State
\* ------------------------------------------------------------------------
VARIABLES
    sim_class,          \* "Simulation" or "PowerUpGame": the class of the simulation
    time,               \* Simulation.time
    agents,             \* the keys of Simulation.agents, in order
    ag,                 \* the agents by name
    cubes,              \* Simulation.cubes
    plates,             \* Simulation.plates
    plate_cubes,        \* Plate.cubes, by plate name
    test_actions_done,  \* sim.test_actions_done of test_agent
    score,              \* PowerUpGame.score
    auto_switch_owners, \* PowerUpGame.auto_switch_owners
    raised,             \* the exception the last call ended with, or ""
    pc,                 \* the caller: "ready", "direct", "playing", "done", "aborted"
    t,                  \* the loop variable of PowerUpGame.play (ticks begun)
    log,                \* history: what the last call did, in order
    nextId,             \* history: the identity of the next scheduled closure
    runs,               \* history: how often each closure was executed
    cancelled,          \* history: the closures overwritten by schedule_action
    ticks,              \* history: the calls of tick() that returned normally
    earned,             \* history: the sum of all points score() calls returned
    endgames,           \* history: how often the endgame score was added
    made,               \* history: the agent objects constructed so far
    other,              \* the agents registered by a second Simulation
    calls               \* history: the direct schedule_action calls made

vars == << sim_class, time, agents, ag, cubes, plates, plate_cubes,
           test_actions_done, score, auto_switch_owners, raised, pc, t,
           log, nextId, runs, cancelled, ticks, earned, endgames, calls,
           made, other >>

\* The bound of the test harness: the direct schedule_action calls made
\* on the agents of a plain Simulation.
MaxCalls == 2

\* The inputs of the harness.
Delays == {0, 1, 2}
CallTimes == {0, 15, 149}
HarnessAgents ==
    { <<"Agent99", RED, "best">>, <<"Robot", BLUE, "First-Base">> }
HarnessPlayers ==
    { Player(<< Step(<< Stmt("schedule_action", "", d, "doit") >>, "always", "act"),
                Step(<< Stmt("wait", "", 0, "") >>, "always", "wait") >>, "done")
        : d \in Delays }
    \cup { example_human_player }
RobotPlayers ==
    {"example_robot_player", "climb_player", "auto_player", "no_player"}
HumanPlayers ==
    {"example_human_player", "no_player", "portal_player", "instant_portal_player"}

\* The program state of the current state, as the record the operators
\* take: every call starts with an empty log and no exception.
World ==
    [ time |-> time, agents |-> agents, ag |-> ag, cubes |-> cubes,
      plates |-> plates, plate_cubes |-> plate_cubes,
      test_actions_done |-> test_actions_done, score |-> score,
      auto_switch_owners |-> auto_switch_owners, raised |-> "",
      log |-> << >>, nextId |-> nextId, runs |-> runs, cancelled |-> cancelled,
      earned |-> earned, made |-> made, other |-> other ]

\* The next state holds the program state s.
Commit(s) ==
    /\ time' = s.time
    /\ agents' = s.agents
    /\ ag' = s.ag
    /\ cubes' = s.cubes
    /\ plates' = s.plates
    /\ plate_cubes' = s.plate_cubes
    /\ test_actions_done' = s.test_actions_done
    /\ score' = s.score
    /\ auto_switch_owners' = s.auto_switch_owners
    /\ raised' = s.raised
    /\ log' = s.log
    /\ nextId' = s.nextId
    /\ runs' = s.runs
    /\ cancelled' = s.cancelled
    /\ earned' = s.earned
    /\ made' = s.made
    /\ other' = s.other

InitFrom(class, s) ==
    /\ sim_class = class
    /\ time = s.time
    /\ agents = s.agents
    /\ ag = s.ag
    /\ cubes = s.cubes
    /\ plates = s.plates
    /\ plate_cubes = s.plate_cubes
    /\ test_actions_done = s.test_actions_done
    /\ score = s.score
    /\ auto_switch_owners = s.auto_switch_owners
    /\ raised = ""
    /\ pc = "ready"
    /\ t = 0
    /\ log = << >>
    /\ nextId = 1
    /\ runs = << >>
    /\ cancelled = {}
    /\ ticks = 0
    /\ earned = ZERO
    /\ made = s.made
    /\ other = s.other
    /\ endgames = 0
    /\ calls = 0

\* After PowerUpGame(robot_player, human_player).
GameInit ==
    \E rp \in RobotPlayers, hp \in HumanPlayers :
        InitFrom("PowerUpGame", PowerUpGame_init(rp, hp))

\* After Simulation() (test_agent, test_robot), or after PowerUpGame(...).
Init ==
    \/ InitFrom("Simulation", Simulation_init)
    \/ GameInit

\* ------------------------------------------------------------------------
\* Actions
\* ------------------------------------------------------------------------
\* Agent99(sim, ...), Robot(sim, ...), Human(sim, ...) on a plain Simulation,
\* before the first tick.
Construct ==
    /\ sim_class = "Simulation" /\ ticks = 0
    /\ \E a \in HarnessAgents :
          /\ agent_name(a[2], a[3], a[1]) \notin DOMAIN ag
          /\ Commit(CASE a[1] = "Agent99" -> Agent99_init(World, a[2], a[3])
                      [] a[1] = "Robot" -> Robot_init(World, a[2], a[3])
                      [] OTHER -> Human_init(World, a[2], a[3]))
    /\ UNCHANGED << sim_class, pc, t, ticks, endgames, calls >>

\* robot.set_player(generator), human.set_player(generator)
SetPlayer ==
    /\ sim_class = "Simulation" /\ ticks = 0
    /\ \E n \in DOMAIN ag, g \in HarnessPlayers :
          /\ ag[n].kind \in {"Robot", "Human"}
          /\ ag[n].player = NoopPlayer
          /\ Commit(set_player(World, n, g))
    /\ UNCHANGED << sim_class, pc, t, ticks, endgames, calls >>

\* agent.schedule_action(seconds, effect, description), called directly
ScheduleAction ==
    /\ sim_class = "Simulation"
    /\ calls < MaxCalls
    /\ time \in CallTimes
    /\ \E n \in DOMAIN ag, seconds \in Delays, fn \in {"doit", "reschedule"} :
          Commit(schedule_action(World, n, seconds, Effect(fn, "", 1), fn))
    /\ calls' = calls + 1
    /\ UNCHANGED << sim_class, pc, t, ticks, endgames >>

\* sim.tick() on a plain Simulation
Tick ==
    /\ sim_class = "Simulation"
    /\ Commit(tick(World))
    /\ ticks' = IF raised' = "" THEN ticks + 1 ELSE ticks
    /\ pc' = "direct"
    /\ UNCHANGED << sim_class, t, endgames, calls >>

\* game.tick() called directly on a PowerUpGame (not from play)
GameTick ==
    /\ sim_class = "PowerUpGame"
    /\ pc \in {"ready", "direct", "done"}
    /\ Commit(PowerUpGame_tick(World))
    /\ ticks' = IF raised' = "" THEN ticks + 1 ELSE ticks
    /\ pc' = IF pc = "done" THEN "done" ELSE "direct"
    /\ UNCHANGED << sim_class, t, endgames, calls >>

\* play(robot_player, human_player, ...): game.play(out) on the game just
\* built; play writes the CSV header and enters its loop.
PlayStart ==
    /\ sim_class = "PowerUpGame"
    /\ pc = "ready"
    /\ pc' = "playing"
    /\ t' = 0
    /\ Commit(World)
    /\ UNCHANGED << sim_class, ticks, endgames, calls >>

\* One iteration of `for t in xrange(GAME_SECS): self.tick(); ...'
PlayTick ==
    /\ pc = "playing"
    /\ t < GAME_SECS
    /\ Commit(PowerUpGame_tick(World))
    /\ ticks' = IF raised' = "" THEN ticks + 1 ELSE ticks
    /\ pc' = IF raised' = "" THEN "playing" ELSE "aborted"
    /\ t' = t + 1
    /\ UNCHANGED << sim_class, endgames, calls >>

\* The loop is over: self.score += self.endgame_score(), the report's
\* last sections, and play returns.
PlayEndgame ==
    /\ pc = "playing"
    /\ t = GAME_SECS
    /\ Commit(add_endgame_score(World))
    /\ endgames' = endgames + 1
    /\ pc' = "done"
    /\ UNCHANGED << sim_class, t, ticks, calls >>

Next ==
    \/ Construct
    \/ SetPlayer
    \/ ScheduleAction
    \/ Tick
    \/ GameTick
    \/ PlayStart
    \/ PlayTick
    \/ PlayEndgame

Spec == Init /\ [][Next]_vars

\* A match: a PowerUpGame, ticked by its caller or played.
GameNext ==
    \/ GameTick
    \/ PlayStart
    \/ PlayTick
    \/ PlayEndgame

\* play() runs to its end once called: the program is one thread, and
\* nothing but play's own steps can happen while it runs.  The conditions
\* are WF_vars(PlayTick) and WF_vars(PlayEndgame) with ENABLED written out:
\* each step is possible exactly when its guard holds, and each changes t
\* or pc.
PlayTickEnabled == pc = "playing" /\ t < GAME_SECS
PlayEndgameEnabled == pc = "playing" /\ t = GAME_SECS
PlaySpec ==
    /\ GameInit /\ [][GameNext]_vars
    /\ ([]<>(~PlayTickEnabled) \/ []<><<PlayTick>>_vars)
    /\ ([]<>(~PlayEndgameEnabled) \/ []<><<PlayEndgame>>_vars)

\* ------------------------------------------------------------------------
\* A test of robots on a plain Simulation (test_robot): two robots of one
\* alliance side by side in its outer zone, their methods called directly.
\* ------------------------------------------------------------------------
\* The bounds of the test: the direct calls it makes, the ticks it runs.
MaxRobotCalls == 2
MaxRobotTicks == 4

RobotPositions == {"First-Base", "Second-Base"}
WaitSeconds == {-1, 0, 1, 2}
\* Deciders that only wait.
WaitPlayers ==
    { Player(<< Step(<< Stmt("wait", "", -1, "") >>, "always", "waiting"),
                Step(<< Stmt("wait", "", 0, "") >>, "always", "waiting"),
                Step(<< Stmt("wait", "", 2, "") >>, "always", "waiting") >>, "done") }
WaitsOnly(player) ==
    /\ player.script # << >>
    /\ \A i \in DOMAIN player.script :
          \A j \in DOMAIN player.script[i].do : player.script[i].do[j].op = "wait"
\* robot.cubes = 1, robot.pickup(), robot.drop(), robot.place(),
\* robot.wait(0)
RobotCalls ==
    { Stmt("cubes", "", 1, ""), Stmt("pickup", "", 0, ""), Stmt("drop", "", 0, ""),
      Stmt("place", "", 0, "") }
    \cup { Stmt("wait", "", 0, "") }

\* sim = Simulation(); sim.cubes[Location.BLUE_OUTER_ZONE] = 0 or 1;
\* sim.plates[Location.BLUE_OUTER_ZONE] = Plate("Gold") or no plate
RobotInit ==
    \E c \in {0, 1}, plate \in {None, Some("Gold")} :
        /\ (plate # None => c = 1)
        /\ InitFrom("Simulation",
                    [Simulation_init EXCEPT
                        !.cubes["BLUE_OUTER_ZONE"] = c,
                        !.plates["BLUE_OUTER_ZONE"] = plate,
                        !.plate_cubes = [q \in {plate[i] : i \in DOMAIN plate} |-> 0]])

\* Robot(sim, BLUE, position)
ConstructRobot ==
    /\ ticks = 0 /\ calls = 0
    /\ \E position \in RobotPositions :
          /\ agent_name(BLUE, position, "Robot") \notin DOMAIN ag
          /\ Commit(Robot_init(World, BLUE, position))
    /\ UNCHANGED << sim_class, pc, t, ticks, endgames, calls >>

\* robot.set_player(a decider that only waits)
SetWaiter ==
    /\ ticks = 0 /\ calls = 0
    /\ \E n \in DOMAIN ag, g \in WaitPlayers :
          /\ ag[n].player = NoopPlayer
          /\ Commit(set_player(World, n, g))
    /\ UNCHANGED << sim_class, pc, t, ticks, endgames, calls >>

\* One direct call on a robot.
RobotCall ==
    /\ calls < MaxRobotCalls
    /\ \E n \in DOMAIN ag, c \in RobotCalls : Commit(run_stmt(World, n, c))
    /\ calls' = calls + 1
    /\ UNCHANGED << sim_class, pc, t, ticks, endgames >>

\* sim.tick(), for the ticks the test runs
RobotTick ==
    /\ time < MaxRobotTicks
    /\ Commit(tick(World))
    /\ ticks' = IF raised' = "" THEN ticks + 1 ELSE ticks
    /\ pc' = "direct"
    /\ UNCHANGED << sim_class, t, endgames, calls >>

RobotNext ==
    \/ ConstructRobot
    \/ SetWaiter
    \/ RobotCall
    \/ RobotTick

RobotSpec == RobotInit /\ [][RobotNext]_vars

\* ------------------------------------------------------------------------
\* A test of driving and climbing on a plain Simulation: one RED robot,
\* starting in its outer zone, its drive_to and climb called directly
\* between the ticks.
\* ------------------------------------------------------------------------
MaxDriveCalls == 4
MaxDriveTicks == 15

\* The destinations of the test: with and without a direct path from where
\* the robot can be.
DriveDests ==
    { "RED_OUTER_ZONE", "RED_FRONT_INNER_ZONE", "RED_PLATFORM", "BLUE_PLATFORM" }

\* sim = Simulation(); robot = Robot(sim, RED, 1)
DriveInit == InitFrom("Simulation", Robot_init(Simulation_init, RED, "1"))

\* robot.drive_to(destination)
DriveTo ==
    /\ calls < MaxDriveCalls
    /\ \E n \in DOMAIN ag, destination \in DriveDests :
          Commit(drive_to(World, n, destination))
    /\ calls' = calls + 1
    /\ UNCHANGED << sim_class, pc, t, ticks, endgames >>

\* robot.climb()
Climb ==
    /\ calls < MaxDriveCalls
    /\ \E n \in DOMAIN ag : Commit(climb(World, n))
    /\ calls' = calls + 1
    /\ UNCHANGED << sim_class, pc, t, ticks, endgames >>

\* sim.tick(), for the ticks the test runs
DriveTick ==
    /\ time < MaxDriveTicks
    /\ Commit(tick(World))
    /\ ticks' = IF raised' = "" THEN ticks + 1 ELSE ticks
    /\ pc' = "direct"
    /\ UNCHANGED << sim_class, t, endgames, calls >>

DriveNext ==
    \/ DriveTo
    \/ Climb
    \/ DriveTick

DriveSpec == DriveInit /\ [][DriveNext]_vars

\* ------------------------------------------------------------------------
\* Two simulations: agents are constructed for either one, and add is
\* called across them.
\* ------------------------------------------------------------------------
\* The bound: the agent objects constructed.
MaxAgents == 3

RegistryInit == InitFrom("Simulation", Simulation_init)

\* Agent99(sim, ...), Robot(sim, ...): any sequence of constructions
Register ==
    /\ made < MaxAgents
    /\ \E a \in HarnessAgents :
          Commit(CASE a[1] = "Agent99" -> Agent99_init(World, a[2], a[3])
                   [] a[1] = "Robot" -> Robot_init(World, a[2], a[3])
                   [] OTHER -> Human_init(World, a[2], a[3]))
    /\ UNCHANGED << sim_class, pc, t, ticks, endgames, calls >>

\* Agent(other, alliance, "spy")
RegisterOther ==
    /\ made < MaxAgents
    /\ \E alliance \in {RED, BLUE} :
          Commit(other_Agent_init(World, agent_name(alliance, "spy", "Agent"),
                     [ kind |-> "Agent", alliance |-> alliance, position |-> "spy",
                       eta |-> None, scheduled_action |-> None,
                       scheduled_action_description |-> "" ]))
    /\ UNCHANGED << sim_class, pc, t, ticks, endgames, calls >>

\* sim.add(agent) for an agent of the other simulation
AddForeign ==
    /\ \E i \in DOMAIN other : Commit(add(World, other[i].name, other[i]))
    /\ UNCHANGED << sim_class, pc, t, ticks, endgames, calls >>

\* other.add(agent) for an agent of this simulation
AddToOther ==
    /\ \E n \in DOMAIN ag : Commit(other_add(World, ag[n]))
    /\ UNCHANGED << sim_class, pc, t, ticks, endgames, calls >>

RegistryNext ==
    \/ Register
    \/ RegisterOther
    \/ AddForeign
    \/ AddToOther
    \/ Tick

RegistrySpec == RegistryInit /\ [][RegistryNext]_vars

\* ------------------------------------------------------------------------
\* A PowerUpGame whose vault columns and seesaws are called directly, as
\* the humans' and the power-up queue's code calls them.
\* ------------------------------------------------------------------------
\* The bounds: the direct calls made, the ticks run.
MaxCubeCalls == 2
MaxPowerCalls == 2
MaxPowerTicks == 20

PowerCallTimes == {0, 15, 16, 18}
CubeAmounts == {-1, 1, 2, 3}
Seesaws == {n \in DOMAIN ag : ag[n].kind \in {"Scale", "Switch"}}
Vaults == {n \in DOMAIN ag : ag[n].kind = "Vault"}

PowerUpInit ==
    \E robot_player \in {"example_robot_player", "scale_player", "front_player"} :
        InitFrom("PowerUpGame", PowerUpGame_init(robot_player,
                                                 "example_human_player"))

\* vault.column_map[column].add_cube(cubes)
AddCube ==
    /\ calls < MaxCubeCalls
    /\ time \in PowerCallTimes
    /\ \E n \in Vaults, i \in 1..3, amount \in CubeAmounts :
          Commit(add_cube(World, n, i, amount))
    /\ calls' = calls + 1
    /\ UNCHANGED << sim_class, pc, t, ticks, endgames >>

\* seesaw.force(alliance, is_start)
Force ==
    /\ calls < MaxPowerCalls
    /\ time \in PowerCallTimes
    /\ \E n \in Seesaws, alliance \in {RED, BLUE}, is_start \in BOOLEAN :
          Commit(force(World, n, alliance, is_start))
    /\ calls' = calls + 1
    /\ UNCHANGED << sim_class, pc, t, ticks, endgames >>

\* seesaw.boost(alliance, is_start)
Boost ==
    /\ calls < MaxPowerCalls
    /\ time \in PowerCallTimes
    /\ \E n \in Seesaws, alliance \in {RED, BLUE}, is_start \in BOOLEAN :
          Commit(boost(World, n, alliance, is_start))
    /\ calls' = calls + 1
    /\ UNCHANGED << sim_class, pc, t, ticks, endgames >>

\* game.tick(), for the ticks run
PowerTick ==
    /\ time < MaxPowerTicks
    /\ Commit(PowerUpGame_tick(World))
    /\ ticks' = IF raised' = "" THEN ticks + 1 ELSE ticks
    /\ pc' = "direct"
    /\ UNCHANGED << sim_class, t, endgames, calls >>

VaultNext ==
    \/ AddCube
    \/ PowerTick
VaultSpec == PowerUpInit /\ [][VaultNext]_vars

SeesawNext ==
    \/ Force
    \/ Boost
    \/ PowerTick
SeesawSpec == PowerUpInit /\ [][SeesawNext]_vars

\* ------------------------------------------------------------------------
\* A PowerUpGame whose station humans push the power-up buttons of vaults
\* that hold cubes, while the game ticks.
\* ------------------------------------------------------------------------
\* The bounds: the calls of activate_power_up and put_to_vault made, the
\* ticks run.
MaxActivations == 2
MaxQueueTicks == 38

ActivateTimes == {12, 13, 14, 20, 24}
ColumnNames == {"force", "levitate", "boost"}
StationHumans == {n \in DOMAIN ag : ag[n].kind = "Human" /\ ag[n].vault # None}

\* vault.columns[i].add_cube(loads[i]) for the three columns of an empty
\* vault, each load one of 0..3
load_vault(s, n, loads) ==
    [s EXCEPT !.ag[n].columns =
        [i \in 1..3 |-> [s.ag[n].columns[i] EXCEPT !.cubes = loads[i]]]]

QueueInit ==
    InitFrom("PowerUpGame",
             load_vault(load_vault(PowerUpGame_init("no_player", "no_player"),
                                   agent_name(RED, "", "Vault"), << 1, 3, 2 >>),
                        agent_name(BLUE, "", "Vault"), << 3, 2, 0 >>))

\* human.activate_power_up(column_name)
ActivatePowerUp ==
    /\ calls < MaxActivations
    /\ time \in ActivateTimes
    /\ \E n \in StationHumans, column_name \in ColumnNames :
          Commit(activate_power_up(World, n, column_name))
    /\ calls' = calls + 1
    /\ UNCHANGED << sim_class, pc, t, ticks, endgames >>

\* human.cubes = amount; human.put_to_vault(column_name)
PutToVault ==
    /\ calls < MaxActivations
    /\ time \in ActivateTimes
    /\ \E n \in StationHumans, column_name \in ColumnNames, amount \in {0, 1} :
          Commit(put_to_vault([World EXCEPT !.ag[n].cubes = amount], n, column_name))
    /\ calls' = calls + 1
    /\ UNCHANGED << sim_class, pc, t, ticks, endgames >>

\* game.tick(), for the ticks run
QueueTick ==
    /\ time < MaxQueueTicks
    /\ Commit(PowerUpGame_tick(World))
    /\ ticks' = IF raised' = "" THEN ticks + 1 ELSE ticks
    /\ pc' = "direct"
    /\ UNCHANGED << sim_class, t, endgames, calls >>

QueueNext ==
    \/ ActivatePowerUp
    \/ PutToVault
    \/ QueueTick
QueueSpec == QueueInit /\ [][QueueNext]_vars

\* ------------------------------------------------------------------------
\* A match played to its endgame: each levitate column holds 2 or 3 cubes,
\* the station humans may push its button before play() is called, and
\* the robots climb, park or stay where they are.
\* ------------------------------------------------------------------------
LevitateLoads == {2, 3}
EndgamePlayers == {"climb_player", "endgame_player", "no_player"}

EndInit ==
    \E robot_player \in EndgamePlayers, red \in LevitateLoads, blue \in LevitateLoads :
        InitFrom("PowerUpGame",
                 load_vault(load_vault(PowerUpGame_init(robot_player, "no_player"),
                                       agent_name(RED, "", "Vault"), << 0, red, 0 >>),
                            agent_name(BLUE, "", "Vault"), << 0, blue, 0 >>))

\* human.activate_power_up('levitate'), once per station human
ActivateLevitate ==
    /\ pc = "ready"
    /\ \E n \in StationHumans :
          /\ ag[n].eta = None
          /\ Commit(activate_power_up(World, n, "levitate"))
    /\ UNCHANGED << sim_class, pc, t, ticks, endgames, calls >>

EndNext ==
    \/ ActivateLevitate
    \/ PlayStart
    \/ PlayTick
    \/ PlayEndgame

EndSpec == EndInit /\ [][EndNext]_vars

\* ------------------------------------------------------------------------
\* A PowerUpGame whose cubes are moved by direct calls: RED's station
\* human holds a cube, its exchange plate holds one, RED's force column is
\* full, and RED's robot 1 has a preloaded cube.
\* ------------------------------------------------------------------------
MaxExchangeCalls == 3
MaxExchangeTicks == 9

CubeHuman == agent_name(RED, "STATION", "Human")
PortalHuman == agent_name(RED, "FRONT", "Human")
CubeRobot == agent_name(RED, "1", "Robot")

CubeInit ==
    InitFrom("PowerUpGame",
             [load_vault(PowerUpGame_init("no_player", "no_player"),
                         agent_name(RED, "", "Vault"), << 3, 1, 0 >>)
                EXCEPT !.plate_cubes["RED Exchange Plate"] = 1,
                       !.ag[CubeHuman].cubes = 1,
                       !.ag[CubeRobot].cubes = 1])

\* human.get_from_exchange(), human.put_to_exchange(),
\* human.put_to_vault(column_name) of the station human
StationCall ==
    /\ calls < MaxExchangeCalls
    /\ \/ Commit(get_from_exchange(World, CubeHuman))
       \/ Commit(put_to_exchange(World, CubeHuman))
       \/ \E column_name \in {"force", "levitate"} :
              Commit(put_to_vault(World, CubeHuman, column_name))
    /\ calls' = calls + 1
    /\ UNCHANGED << sim_class, pc, t, ticks, endgames >>

\* human.put_through_portal() of the human at the front portal
PortalCall ==
    /\ calls < MaxExchangeCalls
    /\ Commit(put_through_portal(World, PortalHuman))
    /\ calls' = calls + 1
    /\ UNCHANGED << sim_class, pc, t, ticks, endgames >>

\* robot.pickup(), robot.drop(), robot.place(),
\* robot.drive_to(RED_EXCHANGE_ZONE)
CubeRobotCall ==
    /\ calls < MaxExchangeCalls
    /\ \E c \in { Stmt("pickup", "", 0, ""), Stmt("drop", "", 0, ""),
                  Stmt("place", "", 0, ""),
                  Stmt("drive_to", "RED_EXCHANGE_ZONE", 0, "") } :
          Commit(run_stmt(World, CubeRobot, c))
    /\ calls' = calls + 1
    /\ UNCHANGED << sim_class, pc, t, ticks, endgames >>

\* game.tick(), for the ticks run
CubeTick ==
    /\ time < MaxExchangeTicks
    /\ Commit(PowerUpGame_tick(World))
    /\ ticks' = IF raised' = "" THEN ticks + 1 ELSE ticks
    /\ pc' = "direct"
    /\ UNCHANGED << sim_class, t, endgames, calls >>

CubeNext ==
    \/ StationCall
    \/ PortalCall
    \/ CubeRobotCall
    \/ CubeTick

CubeSpec == CubeInit /\ [][CubeNext]_vars

\* ------------------------------------------------------------------------
\* Scores on their own (test_score, test_score_wlt): a running score to
\* which scores are added, and its ranking points.
\* ------------------------------------------------------------------------
\* The bound: the additions made.
MaxScoreAdds == 2

ScorePoints == {-1, 0, 2, 7}
ScoreValues == {Score(r, b) : r \in ScorePoints, b \in ScorePoints}

ScoreInit == InitFrom("Score", Simulation_init)

\* score = score + other; the log keeps the operands
ScoreAdd ==
    /\ sim_class = "Score"
    /\ calls < MaxScoreAdds
    /\ \E other_score \in ScoreValues :
          Commit([World EXCEPT
                     !.score = add_score(@, other_score),
                     !.log = << Event("add", "", score.red, score.blue, ""),
                                Event("other", "", other_score.red,
                                      other_score.blue, "") >>])
    /\ calls' = calls + 1
    /\ UNCHANGED << sim_class, pc, t, ticks, endgames >>

\* score.wlt_rp(); the log keeps the result
ScoreWltRp ==
    /\ sim_class = "Score"
    /\ Commit([World EXCEPT
                  !.log = << Event("wlt_rp", "", wlt_rp(score).red,
                                   wlt_rp(score).blue, "") >>])
    /\ UNCHANGED << sim_class, pc, t, ticks, endgames, calls >>

ScoreNext ==
    \/ ScoreAdd
    \/ ScoreWltRp

ScoreSpec == ScoreInit /\ [][ScoreNext]_vars

\* ------------------------------------------------------------------------
\* Reading the history
\* ------------------------------------------------------------------------
\* The positions of the log holding an event `ev' of agent `n'.
EventsOf(ev, n) == {i \in DOMAIN log : log[i].ev = ev /\ log[i].who = n}
\* The last of them, or 0.
LastEvent(ev, n) ==
    IF EventsOf(ev, n) = {} THEN 0
    ELSE CHOOSE i \in EventsOf(ev, n) : \A j \in EventsOf(ev, n) : j <= i
\* The closures stored in the agents.
PendingIds == {ag[n].scheduled_action[1].id :
                  n \in {m \in DOMAIN ag : ag[m].scheduled_action # None}}

\* ------------------------------------------------------------------------
\* C1: Simulation.time starts at 0; every tick() that returns normally
\* increases it by exactly 1; no operation decreases it; and time <=
\* GAME_SECS in every reachable state.  With `ticks' counting the ticks
\* that returned normally: time equals ticks and stays in 0..GAME_SECS,
\* and every step leaves time alone or adds 1 to both.
\* ------------------------------------------------------------------------
C1_TimeCountsTicks ==
    /\ [](time = ticks /\ time \in 0..GAME_SECS)
    /\ [][\/ time' = time /\ ticks' = ticks
          \/ time' = time + 1 /\ ticks' = ticks + 1]_vars

\* The clock has run to the end of the match and a further tick failed.
C1_Witness == time = GAME_SECS /\ ticks = GAME_SECS /\ raised = "GameOver"

\* ------------------------------------------------------------------------
\* C2: an agent holds at most one pending (eta, action, description);
\* schedule_action overwrites it at the moment of the call; the effect of
\* an action overwritten before its eta never runs.  An overwritten
\* closure has never run and is stored nowhere; eta and action are set
\* and cleared together; and right after a direct schedule_action call the
\* agent holds the closure and the eta of that call.
\* ------------------------------------------------------------------------
C2_OverwrittenNeverRuns ==
    /\ \A id \in cancelled : runs[id] = 0 /\ id \notin PendingIds
    /\ \A n \in DOMAIN ag :
          /\ Len(ag[n].scheduled_action) <= 1
          /\ (ag[n].eta = None) <=> (ag[n].scheduled_action = None)
    /\ (Len(log) = 1 /\ log[1].ev = "schedule") =>
          /\ ag[log[1].who].scheduled_action # None
          /\ ag[log[1].who].scheduled_action[1].id = log[1].id
          /\ ag[log[1].who].eta = Some(log[1].t)

\* A closure was overwritten, a closure stored after it has run, and the
\* clock is past every eta the direct calls could have set.
C2_Witness ==
    /\ \E c \in cancelled : \E j \in (c + 1)..Len(runs) : runs[j] = 1
    /\ time = AUTONOMOUS_SECS + 3

\* ------------------------------------------------------------------------
\* C3: an action scheduled at time T with delay D >= 1 and not superseded
\* runs exactly once, in the tick where time = T + D, never earlier and
\* never skipped, also across the autonomous/teleop boundary.  Every
\* effect with D >= 1 that ran in the last call ran at time = T + D; a
\* stored action with D >= 1 has eta = T + D still ahead of the clock; and
\* every closure ever stored is exactly one of: still stored, overwritten,
\* run once.
\* ------------------------------------------------------------------------
C3_FiresExactlyAtEta ==
    /\ \A i \in DOMAIN log :
          (log[i].ev = "action" /\ log[i].delay >= 1) =>
              /\ log[i].t = log[i].at + log[i].delay
              /\ time = log[i].t
    /\ \A n \in DOMAIN ag :
          (ag[n].scheduled_action # None /\ ag[n].scheduled_action[1].delay >= 1) =>
              /\ ag[n].eta = Some(ag[n].scheduled_action[1].at
                                  + ag[n].scheduled_action[1].delay)
              /\ ag[n].eta[1] > time
    /\ \A id \in 1..Len(runs) :
          \/ runs[id] = 0 /\ id \in PendingIds /\ id \notin cancelled
          \/ runs[id] = 0 /\ id \notin PendingIds /\ id \in cancelled
          \/ runs[id] = 1 /\ id \notin PendingIds /\ id \notin cancelled

\* An effect scheduled during the autonomous period has just run in teleop.
C3_Witness ==
    \E i \in DOMAIN log :
        /\ log[i].ev = "action" /\ log[i].delay >= 1
        /\ log[i].at <= AUTONOMOUS_SECS /\ AUTONOMOUS_SECS < log[i].t

\* ------------------------------------------------------------------------
\* C4: when Agent.update finds time = eta it clears eta, action and
\* description, then runs the effect, then calls scheduled_action_done
\* once; when time # eta it does neither; so an action scheduled by the
\* effect or by the hook during the update is still stored, with its own
\* eta, when the update returns.  In the log of a call: every clearing is
\* followed at once by the effect, which sees nothing stored; the effect
\* is followed, after its own scheduling at most, by the hook; the hook
\* runs once per effect (and once more where Robot/Human.update found the
\* agent idle); an update that finds a later eta does nothing; and the
\* last schedule_action after the last clearing is what the agent holds.
\* ------------------------------------------------------------------------
C4_ClearThenRunThenHook ==
    /\ \A i \in DOMAIN log :
          log[i].ev = "clear" =>
              /\ i < Len(log)
              /\ log[i + 1].ev = "action" /\ log[i + 1].who = log[i].who
              /\ log[i + 1].st = "none"
    /\ \A i \in DOMAIN log :
          log[i].ev = "action" =>
              /\ i > 1 /\ log[i - 1].ev = "clear"
              /\ log[i].t = time
              /\ \E j \in (i + 1)..Len(log) :
                    /\ log[j].ev = "done" /\ log[j].who = log[i].who
                    /\ \A k \in (i + 1)..(j - 1) :
                          log[k].ev = "schedule" /\ log[k].who = log[i].who
    /\ \A n \in DOMAIN ag :
          Cardinality(EventsOf("done", n)) =
              Cardinality(EventsOf("action", n)) + Cardinality(EventsOf("idle", n))
    /\ \A i \in DOMAIN log :
          (log[i].ev = "update" /\ log[i].st = "later") =>
              (i = Len(log) \/ log[i + 1].who # log[i].who
                            \/ log[i + 1].ev = "score")
    /\ \A n \in DOMAIN ag :
          LastEvent("schedule", n) > LastEvent("clear", n) =>
              /\ ag[n].scheduled_action # None
              /\ ag[n].scheduled_action[1].id = log[LastEvent("schedule", n)].id
              /\ ag[n].eta = Some(log[LastEvent("schedule", n)].t)

\* An update has fired an action whose effect or hook scheduled the next
\* one, which the agent holds now.
C4_Witness ==
    \E n \in DOMAIN ag :
        /\ LastEvent("clear", n) > 0
        /\ LastEvent("schedule", n) > LastEvent("clear", n)
        /\ ag[n].scheduled_action # None

\* ------------------------------------------------------------------------
\* C5: in every Robot.update and Human.update the decider is advanced
\* exactly once if the agent has no pending action on entry or its pending
\* action fires in this update, and not at all if a pending action with a
\* later eta remains, whatever delay the decider passes on.  In the log of
\* a tick, per Robot or Human: one `next' where the update found nothing
\* stored or a due action, none where it found a later eta.
\* ------------------------------------------------------------------------
C5_DeciderAdvancedOnce ==
    \A i \in DOMAIN log :
        (log[i].ev = "update" /\ ag[log[i].who].kind \in {"Robot", "Human"}) =>
            /\ log[i].st \in {"none", "due"} =>
                   Cardinality(EventsOf("next", log[i].who)) = 1
            /\ log[i].st = "later" =>
                   Cardinality(EventsOf("next", log[i].who)) = 0

\* Whether the first step of a decider issues an action.
FirstStepSchedules(player) ==
    /\ Len(player.script) > 0
    /\ \/ player.script[1].cond = "wait_for_teleop"
       \/ \E k \in DOMAIN player.script[1].do :
             player.script[1].do[k].op \in
                 {"schedule_action", "wait", "drive_to", "pickup", "drop",
                  "place", "put_through_portal"}

\* ------------------------------------------------------------------------
\* C6: set_player drives the decider once at attachment, so that after
\* match setup, at time 0 and before the first tick, every Robot/Human
\* whose decider's first step issues an action holds that action, its eta
\* counted from time 0.
\* ------------------------------------------------------------------------
C6_FirstActionAtAttachment ==
    (sim_class = "PowerUpGame" /\ ticks = 0 /\ time = 0) =>
        \A n \in DOMAIN ag :
            (ag[n].kind \in {"Robot", "Human"} /\ FirstStepSchedules(ag[n].player)) =>
                /\ ag[n].player.pos >= 1
                /\ ag[n].scheduled_action # None
                /\ ag[n].scheduled_action[1].at = 0

\* The update events, and the score events, of a log, in order.
UpdatesIn(l) == SelectSeq(l, LAMBDA e : e.ev = "update")
ScoresIn(l) == SelectSeq(l, LAMBDA e : e.ev = "score")

\* ------------------------------------------------------------------------
\* C7: in every successful tick update(newTime) is called exactly once on
\* each registered agent, in registration order, every call with the same
\* new time; the registration order never changes during a match.  A step
\* only ever appends to the agents, none once the ticks began; and the
\* updates logged by a tick that returned are the agents, in order, each
\* with the new time.
\* ------------------------------------------------------------------------
C7_UpdatesInRegistrationOrder ==
    [][/\ Len(agents') >= Len(agents)
       /\ SubSeq(agents', 1, Len(agents)) = agents
       /\ ticks > 0 => agents' = agents
       /\ ticks' = ticks + 1 =>
             /\ Len(UpdatesIn(log')) = Len(agents)
             /\ \A k \in 1..Len(agents) :
                   /\ UpdatesIn(log')[k].who = agents[k]
                   /\ UpdatesIn(log')[k].t = time'
                   /\ UpdatesIn(log')[k].t = time + 1]_vars

\* A tick has just updated several agents.
C7_Witness ==
    /\ Len(agents) >= 2 /\ ticks >= 2 /\ raised = ""
    /\ Len(UpdatesIn(log)) = Len(agents)
    /\ \A k \in 1..Len(agents) : UpdatesIn(log)[k].who = agents[k]

\* ------------------------------------------------------------------------
\* C8: in every successful PowerUpGame.tick score() is called exactly once
\* on every agent, only after the update of every agent has returned, and
\* the running score after tick N is Score.ZERO plus the sum of all
\* per-tick agent scores of ticks 1..N.  The score calls logged by a game
\* tick that returned are the agents, in order, and follow every other
\* event of the tick; the score is ZERO before the first tick and, until
\* the endgame points are added, the sum of the points of all score calls.
\* ------------------------------------------------------------------------
C8_ScoreOncePerAgentAfterUpdates ==
    /\ [](ticks = 0 => score = ZERO)
    /\ [](endgames = 0 => score = earned)
    /\ [][(sim_class = "PowerUpGame" /\ ticks' = ticks + 1) =>
             /\ Len(ScoresIn(log')) = Len(agents)
             /\ \A k \in 1..Len(agents) : ScoresIn(log')[k].who = agents[k]
             /\ Len(UpdatesIn(log')) = Len(agents)
             /\ \A i \in DOMAIN log', j \in DOMAIN log' :
                   (log'[i].ev = "score" /\ log'[j].ev # "score") => j < i
             /\ score' = add_score(score, Score(earned'.red - earned.red,
                                                earned'.blue - earned.blue))]_vars

\* Several game ticks have scored; the last one added points to a score
\* that already had some.
C8_Witness ==
    /\ sim_class = "PowerUpGame" /\ ticks >= 2 /\ endgames = 0
    /\ Len(ScoresIn(log)) = Len(agents)
    /\ \E k \in 1..Len(agents) : ScoresIn(log)[k].t > 0
    /\ \E k \in 1..Len(agents) : ScoresIn(log)[k].id > 0
    /\ score.red > 10 /\ score.blue > 10

\* ------------------------------------------------------------------------
\* C9: tick() called when time = GAME_SECS raises GameOver and leaves the
\* time, every agent's state and (in PowerUpGame) the running score
\* unchanged: no update and no score call happens in the failed tick.
\* ------------------------------------------------------------------------
C9_TickPastEndRaises ==
    [][(time = GAME_SECS /\ (Tick \/ GameTick \/ PlayTick)) =>
          /\ raised' = "GameOver"
          /\ time' = time
          /\ agents' = agents /\ ag' = ag
          /\ cubes' = cubes /\ plate_cubes' = plate_cubes
          /\ score' = score /\ earned' = earned
          /\ runs' = runs /\ ticks' = ticks
          /\ log' = << >>]_vars

\* A tick of a finished game, with points on the board, has failed.
C9_Witness ==
    /\ raised = "GameOver" /\ time = GAME_SECS
    /\ sim_class = "PowerUpGame" /\ score # ZERO /\ log = << >>

\* ------------------------------------------------------------------------
\* C10: PowerUpGame.play always terminates: it makes exactly GAME_SECS
\* successful ticks, reaches time = GAME_SECS, never sees GameOver, and
\* makes no tick after the endgame scoring.  Once play has begun it comes
\* to its end; it never breaks off; at its end the loop has made GAME_SECS
\* iterations, GAME_SECS ticks have returned, the time is GAME_SECS and
\* the endgame points were added once; and the endgame scoring is play's
\* last step: after it neither its loop nor the scoring goes on.
\* ------------------------------------------------------------------------
C10_PlayTerminates ==
    /\ (pc = "playing") ~> (pc = "done")
    /\ [](pc # "aborted")
    /\ [](pc = "playing" => (raised = "" /\ t = ticks /\ t = time /\ endgames = 0))
    /\ [](pc = "done" => (t = GAME_SECS /\ ticks = GAME_SECS
                          /\ time = GAME_SECS /\ endgames = 1))
    /\ [][(endgames' # endgames \/ pc = "done") =>
             (pc' = "done" /\ t' = t /\ ticks' = ticks /\ time' = time)]_vars

\* play has returned after a whole match.
C10_Witness ==
    /\ pc = "done" /\ endgames = 1 /\ ticks = GAME_SECS /\ raised = ""
    /\ score # ZERO


\* ------------------------------------------------------------------------
\* C11: wait(seconds) coerces its argument to at least 1: for every agent
\* and every seconds in -1..2, the state after wait(seconds) holds a
\* stored action with eta = time + max(seconds, 1), which is later than
\* the current time; a stored wait is never due in the past or present;
\* and a robot whose decider only waits is resumed at most once within one
\* call (one tick).
C11_WaitAtLeastOneSecond ==
    /\ \A n \in DOMAIN ag, k \in WaitSeconds :
          /\ wait(World, n, k).ag[n].scheduled_action # None
          /\ wait(World, n, k).ag[n].eta = Some(time + (IF k > 1 THEN k ELSE 1))
          /\ wait(World, n, k).ag[n].eta[1] > time
    /\ \A n \in DOMAIN ag :
          (ag[n].scheduled_action # None /\ ag[n].scheduled_action[1].fn = "done")
              => ag[n].eta # None /\ ag[n].eta[1] > time
    /\ \A n \in DOMAIN ag :
          WaitsOnly(ag[n].player) => Cardinality(EventsOf("next", n)) <= 1
\* A tick has resumed a waits-only decider whose wait(-1) or wait(0) fired,
\* and its next wait is stored.
C11_Witness ==
    \E n \in DOMAIN ag :
        /\ WaitsOnly(ag[n].player)
        /\ ag[n].player.pos = 2
        /\ EventsOf("action", n) # {}
        /\ Cardinality(EventsOf("next", n)) = 1
        /\ ag[n].scheduled_action # None

\* ------------------------------------------------------------------------
\* C12: schedule_action with a delay of 0 or less is coerced to one
\* second: right after such a call the stored eta is time + 1.
C12_ScheduleCoercesDelay ==
    \A i \in DOMAIN log :
        (log[i].ev = "schedule" /\ i = Len(log) /\ ag[log[i].who].scheduled_action # None
         /\ ag[log[i].who].scheduled_action[1].id = log[i].id
         /\ ag[log[i].who].scheduled_action[1].at = time
         /\ ag[log[i].who].scheduled_action[1].delay <= 0)
            => ag[log[i].who].eta = Some(time + 1)

\* ------------------------------------------------------------------------
\* C13: in every reachable state the autonomous flag of the simulation,
\* which is the flag every agent reads, is true at the times 0..15 and
\* false at the times 16..150; and the seesaws score by the flag of the
\* tick being scored: with no power-up played, a seesaw earns 0, 2 or 4
\* points in a tick at a time up to 15 and 0, 1 or 2 in a later tick.
C13_AutonomousFollowsTime ==
    /\ time \in 0..15 => autonomous(World)
    /\ time \in 16..150 => ~autonomous(World)
    /\ time \in 0..150
    /\ \A n \in DOMAIN ag : Agent_autonomous(World, n) = (time \in 0..15)
    /\ \A i \in DOMAIN log :
          (log[i].ev = "score" /\ ag[log[i].who].kind \in {"Scale", "Switch"})
              => log[i].t + log[i].id \in (IF time <= 15 THEN {0, 2, 4} ELSE {0, 1, 2})
\* The first tick after the autonomous period: the flag is down and an
\* owned seesaw scored one point.
C13_Witness ==
    /\ time = 16
    /\ ~autonomous(World)
    /\ \E i \in DOMAIN log :
          /\ log[i].ev = "score" /\ ag[log[i].who].kind \in {"Scale", "Switch"}
          /\ log[i].t + log[i].id = 1

\* ------------------------------------------------------------------------
\* C14: add rejects an agent bound to another simulation and leaves the
\* registry as it was; and every agent constructed so far is in exactly
\* one registry, that of the simulation it was constructed for.
C14_OneRegistryForLife ==
    /\ \A i \in DOMAIN other :
          /\ add(World, other[i].name, other[i]).raised = "AssertionError"
          /\ add(World, other[i].name, other[i]).agents = agents
          /\ add(World, other[i].name, other[i]).ag = ag
    /\ \A n \in DOMAIN ag :
          /\ other_add(World, ag[n]).raised = "AssertionError"
          /\ other_add(World, ag[n]).other = other
    /\ \A n \in DOMAIN ag : ag[n].simulation = "sim"
    /\ \A i \in DOMAIN other : other[i].simulation = "other"
    /\ \A o \in 1..made :
          Cardinality({n \in DOMAIN ag : ag[n].oid = o})
              + Cardinality({i \in DOMAIN other : other[i].oid = o}) = 1

\* The endgame_score() calls of a log, and the sum of their points.
EndgamesIn(l) == SelectSeq(l, LAMBDA e : e.ev = "endgame")
RECURSIVE EndgamePoints(_, _)
EndgamePoints(l, i) ==
    IF i > Len(l) THEN ZERO
    ELSE add_score(Score(l[i].t, l[i].id), EndgamePoints(l, i + 1))

\* ------------------------------------------------------------------------
\* C15: in play, endgame_score() is called once on every agent, in one
\* step that comes after the GAME_SECS-th tick and not before, and the sum
\* of what the calls returned is added to the running score once.  The
\* endgame step happens at most once and only when the loop has made its
\* GAME_SECS ticks; it calls endgame_score() once per registered agent, in
\* registration order; the score after it is the score before it plus the
\* points of those calls, and it changes the score when they are not zero;
\* no other step calls endgame_score() or changes the score without a
\* scoring pass; and play comes to that step.
\* ------------------------------------------------------------------------
C15_EndgameScoredOnce ==
    /\ [](endgames <= 1)
    /\ [](EndgamesIn(log) # << >> => (pc = "done" /\ endgames = 1 /\ ticks = GAME_SECS))
    /\ [][endgames' # endgames =>
             /\ endgames' = endgames + 1
             /\ pc = "playing" /\ t = GAME_SECS /\ ticks = GAME_SECS /\ time = GAME_SECS
             /\ Len(EndgamesIn(log')) = Len(agents)
             /\ \A i \in DOMAIN agents : EndgamesIn(log')[i].who = agents[i]
             /\ score' = add_score(score, EndgamePoints(EndgamesIn(log'), 1))]_vars
    /\ [][endgames' = endgames => EndgamesIn(log') = << >>]_vars
    /\ (pc = "playing") ~> (endgames = 1)
\* play has returned and its endgame step added points to a score that
\* the ticks had already raised.
C15_Witness ==
    /\ pc = "done" /\ endgames = 1
    /\ EndgamePoints(EndgamesIn(log), 1) # ZERO
    /\ score # EndgamePoints(EndgamesIn(log), 1)
    /\ \E i \in DOMAIN log : log[i].ev = "endgame" /\ log[i].t = 30
    /\ \E i \in DOMAIN log : log[i].ev = "endgame" /\ log[i].id = 5

\* The effect of agent n is due in the next tick and will find nothing to
\* do: a pickup with no cube at the robot's location or with a cube in the
\* robot, a drop or a place with no cube in the robot, a place with no
\* plate at the robot's location.
NoopEffectDue(n) ==
    /\ ag[n].kind = "Robot"
    /\ ag[n].scheduled_action # None
    /\ ag[n].eta = Some(time + 1)
    /\ LET fn == ag[n].scheduled_action[1].fn
       IN \/ fn = "pickup" /\ (cubes[ag[n].location] = 0 \/ ag[n].cubes > 0)
          \/ fn \in {"drop", "place"} /\ ag[n].cubes = 0
          \/ fn = "place" /\ plates[ag[n].location] = None
\* No other agent has an effect due in the next tick that moves cubes.
OthersQuiet(n) ==
    \A m \in DOMAIN ag \ {n} :
        (ag[m].scheduled_action # None /\ ag[m].eta = Some(time + 1))
            => ag[m].scheduled_action[1].fn = "done"

\* ------------------------------------------------------------------------
\* C16: a tick in which a robot's pickup, drop or place effect is due and
\* finds nothing to do (no other agent moving cubes in that tick) raises
\* no error and changes no cube count, of locations, plates or robots; the
\* effect was called and the completion hook ran after it in that tick,
\* resuming the robot's decider: the decider is one yield further unless
\* it was at its terminal step.
C16_NoopEffects ==
    [][\A n \in DOMAIN ag :
          (time' = time + 1 /\ NoopEffectDue(n) /\ OthersQuiet(n)) =>
              /\ raised' = ""
              /\ cubes' = cubes
              /\ plate_cubes' = plate_cubes
              /\ \A m \in DOMAIN ag : ag'[m].cubes = ag[m].cubes
              /\ \E i, j, k \in DOMAIN log' :
                    /\ i < j /\ j < k
                    /\ log'[i].ev = "action" /\ log'[i].who = n
                    /\ log'[i].id = ag[n].scheduled_action[1].id
                    /\ log'[j].ev = "done" /\ log'[j].who = n
                    /\ log'[k].ev = "next" /\ log'[k].who = n
              /\ Cardinality({i \in DOMAIN log' :
                                 log'[i].ev = "next" /\ log'[i].who = n}) = 1
              /\ ag'[n].player.pos =
                     (IF ag[n].player.pos < Len(ag[n].player.script)
                      THEN ag[n].player.pos + 1 ELSE ag[n].player.pos)]_vars
\* A tick ran a pickup that found nothing to take, and the robot's decider
\* went on to its next wait.
C16_Witness ==
    /\ raised = ""
    /\ \E n \in DOMAIN ag :
          /\ \E i \in DOMAIN log :
                log[i].ev = "action" /\ log[i].who = n /\ log[i].fn = "pickup"
          /\ \A i \in DOMAIN log : log[i].ev = "action" => log[i].who = n
          /\ ag[n].cubes = 0
          /\ EventsOf("next", n) # {}
          /\ ag[n].player.pos >= 1
          /\ ag[n].scheduled_action # None
          /\ ag[n].scheduled_action[1].fn = "done"

\* The pickup effect of robot n is due in the next tick.
PickupDue(n) ==
    /\ ag[n].kind = "Robot"
    /\ ag[n].scheduled_action # None
    /\ ag[n].eta = Some(time + 1)
    /\ ag[n].scheduled_action[1].fn = "pickup"
\* n1 was registered before n2.
RegisteredBefore(n1, n2) ==
    \E i, j \in DOMAIN agents : i < j /\ agents[i] = n1 /\ agents[j] = n2

\* ------------------------------------------------------------------------
\* C17: no location's cube count is negative in any reachable state; and
\* a tick in which the pickup effects of two empty robots are due at one
\* location holding exactly one cube gives the cube to the robot that
\* was registered first, leaves the later robot without a cube, removes
\* exactly one cube from the location and raises nothing.
C17_OneCubeTwoRobots ==
    /\ [](\A loc \in Location : cubes[loc] >= 0)
    /\ [][\A n1, n2 \in DOMAIN ag :
             (/\ time' = time + 1
              /\ PickupDue(n1) /\ PickupDue(n2) /\ RegisteredBefore(n1, n2)
              /\ ag[n1].location = ag[n2].location
              /\ cubes[ag[n1].location] = 1
              /\ ag[n1].cubes = 0 /\ ag[n2].cubes = 0) =>
                 /\ raised' = ""
                 /\ ag'[n1].cubes = 1
                 /\ ag'[n2].cubes = 0
                 /\ cubes'[ag[n1].location] = 0
                 /\ \A loc \in Location \ {ag[n1].location} : cubes'[loc] = cubes[loc]]_vars
\* Both pickups ran in the tick just made: the first robot holds the
\* cube, the second holds none and the location is empty.
C17_Witness ==
    \E n1, n2 \in DOMAIN ag :
        /\ RegisteredBefore(n1, n2)
        /\ \E i, j \in DOMAIN log :
              /\ i < j
              /\ log[i].ev = "action" /\ log[i].who = n1 /\ log[i].fn = "pickup"
              /\ log[j].ev = "action" /\ log[j].who = n2 /\ log[j].fn = "pickup"
        /\ ag[n1].cubes = 1 /\ ag[n2].cubes = 0
        /\ ag[n1].location = ag[n2].location
        /\ cubes[ag[n1].location] = 0
        /\ raised = ""

\* ------------------------------------------------------------------------
\* C18: every vault column holds 0..3 cubes in every reachable state; and
\* for every vault, column and amount, add_cube with a negative amount or
\* with an amount bringing the total above 3 raises RuntimeError and
\* leaves every column as it was, while any other amount raises nothing
\* and adds exactly that amount to that column.
C18_VaultColumnBounds ==
    /\ \A n \in Vaults : \A i \in 1..3 : ag[n].columns[i].cubes \in 0..3
    /\ \A n \in Vaults : \A i \in 1..3 : \A k \in CubeAmounts :
          IF k < 0 \/ ag[n].columns[i].cubes + k > 3
          THEN /\ add_cube(World, n, i, k).raised = "RuntimeError"
               /\ add_cube(World, n, i, k).ag = ag
          ELSE /\ add_cube(World, n, i, k).raised = ""
               /\ add_cube(World, n, i, k).ag[n].columns[i].cubes
                     = ag[n].columns[i].cubes + k
\* An add_cube call was refused on a column already holding cubes, and the
\* column kept them.
C18_Witness ==
    /\ raised = "RuntimeError"
    /\ calls = 2
    /\ \E n \in Vaults : \E i \in 1..3 : ag[n].columns[i].cubes \in {2, 3}

\* ------------------------------------------------------------------------
\* C19: no seesaw is forced or boosted in a state with time <=
\* AUTONOMOUS_SECS; and in such a state every force or boost call, start
\* or end, on a Scale or on a Switch of the acting alliance raises
\* RuntimeError and leaves all agents as they were.
C19_NoPowerUpInAutonomous ==
    /\ time <= 15 =>
          \A n \in Seesaws :
              /\ ~ag[n].forced /\ ~ag[n].boosted
              /\ ag[n].force_alliance = "" /\ ag[n].boost_alliance = ""
    /\ time <= 15 =>
          \A n \in Seesaws : \A alliance \in {RED, BLUE} : \A is_start \in BOOLEAN :
              (ag[n].kind = "Scale" \/ ag[n].alliance = alliance) =>
                  /\ force(World, n, alliance, is_start).raised = "RuntimeError"
                  /\ force(World, n, alliance, is_start).ag = ag
                  /\ boost(World, n, alliance, is_start).raised = "RuntimeError"
                  /\ boost(World, n, alliance, is_start).ag = ag
    /\ (raised = "RuntimeError" /\ log = << >>) => time <= 15
\* A call was refused at the last second of the autonomous period.
C19_Witness ==
    /\ raised = "RuntimeError" /\ time = 15 /\ calls >= 1
    /\ \A n \in Seesaws : ~ag[n].forced /\ ~ag[n].boosted

\* Robot or Human n has no pending action and its decider is at its
\* terminal step (the default decider has no other step).
IdleAtTerminal(n) ==
    /\ ag[n].kind \in {"Robot", "Human"}
    /\ ag[n].scheduled_action = None
    /\ ag[n].player.pos = Len(ag[n].player.script)
\* The robots and humans of the simulation all have the default decider.
AllDefaultDeciders ==
    \A n \in DOMAIN ag : ag[n].kind \in {"Robot", "Human"} => ag[n].player = NoopPlayer

\* ------------------------------------------------------------------------
\* C20: a tick finding a Robot or Human idle at the terminal step of its
\* decider resumes the decider once, leaves the agent as it was but for
\* its behavior label, which is the terminal label (so the same label
\* from then on), schedules nothing for it and earns it no points; and in
\* a game whose robots and humans all keep the default decider, no robot
\* or human ever has a scheduled action and the score stays zero to the
\* end of the match, endgame included.
C20_IdleAgentsStayIdle ==
    /\ [][\A n \in DOMAIN ag :
             (time' = time + 1 /\ IdleAtTerminal(n)) =>
                 /\ ag'[n] = [ag[n] EXCEPT !.behavior = ag[n].player.terminal]
                 /\ ag'[n].scheduled_action = None /\ ag'[n].eta = None
                 /\ Cardinality({i \in DOMAIN log' :
                                    log'[i].ev = "next" /\ log'[i].who = n}) = 1
                 /\ \A i \in DOMAIN log' :
                       log'[i].who = n =>
                           /\ log'[i].ev \notin {"schedule", "action"}
                           /\ log'[i].ev = "score" => (log'[i].t = 0 /\ log'[i].id = 0)]_vars
    /\ []((sim_class = "PowerUpGame" /\ AllDefaultDeciders) =>
             /\ score = ZERO /\ earned = ZERO
             /\ \A n \in DOMAIN ag :
                   ag[n].kind \in {"Robot", "Human"} =>
                       /\ ag[n].scheduled_action = None /\ ag[n].eta = None
                       /\ ag[n].behavior \in {"", "--"})
\* A match of idle robots and humans was played to its end.
C20_Witness ==
    /\ sim_class = "PowerUpGame" /\ AllDefaultDeciders
    /\ pc = "done" /\ endgames = 1 /\ time = GAME_SECS /\ ticks = GAME_SECS
    /\ score = ZERO
    /\ \A n \in DOMAIN ag : ag[n].kind \in {"Robot", "Human"} => ag[n].behavior = "--"

\* ------------------------------------------------------------------------
\* C21: Score addition is pairwise: the score an addition left is the
\* red sum and the blue sum of its two operands; and for the running
\* score a and all scores b and c, a + b = (a.red + b.red, a.blue +
\* b.blue), a + b = b + a, (a + b) + c = a + (b + c), and a + ZERO = a =
\* ZERO + a.
C21_ScoreAddition ==
    /\ (Len(log) = 2 /\ log[1].ev = "add") =>
          /\ score.red = log[1].t + log[2].t
          /\ score.blue = log[1].id + log[2].id
    /\ \A b \in ScoreValues :
          /\ add_score(score, b).red = score.red + b.red
          /\ add_score(score, b).blue = score.blue + b.blue
          /\ DOMAIN add_score(score, b) = {"red", "blue"}
          /\ add_score(score, b) = add_score(b, score)
    /\ \A b \in ScoreValues : \A c \in ScoreValues :
          add_score(add_score(score, b), c) = add_score(score, add_score(b, c))
    /\ add_score(score, ZERO) = score
    /\ add_score(ZERO, score) = score
\* Two additions were made, the last with different red and blue points.
C21_Witness ==
    /\ sim_class = "Score" /\ calls = 2
    /\ Len(log) = 2 /\ log[1].ev = "add"
    /\ log[1].t # log[1].id /\ log[2].t # log[2].id /\ log[2].id # 0
    /\ score.red # score.blue

\* ------------------------------------------------------------------------
\* C22: wlt_rp of a score is (2, 0) when red > blue, (0, 2) when red <
\* blue and (1, 1) on a tie: its two ranking points sum to 2; both for
\* the result a wlt_rp() call left and for the running score.
C22_WinLossTie ==
    /\ wlt_rp(score) = (IF score.red > score.blue THEN Score(2, 0)
                        ELSE IF score.red < score.blue THEN Score(0, 2)
                        ELSE Score(1, 1))
    /\ wlt_rp(score).red + wlt_rp(score).blue = 2
    /\ (Len(log) = 1 /\ log[1].ev = "wlt_rp") =>
          /\ log[1].t + log[1].id = 2
          /\ score.red > score.blue => (log[1].t = 2 /\ log[1].id = 0)
          /\ score.red < score.blue => (log[1].t = 0 /\ log[1].id = 2)
          /\ score.red = score.blue => (log[1].t = 1 /\ log[1].id = 1)
\* wlt_rp() was called on a tie that is not 0 : 0.
C22_Witness ==
    /\ Len(log) = 1 /\ log[1].ev = "wlt_rp"
    /\ score.red = score.blue /\ score.red # 0
    /\ log[1].t = 1 /\ log[1].id = 1

\* ------------------------------------------------------------------------
\* C23: at a time before AUTONOMOUS_SECS wait_for_teleop returns True and
\* stores an action for the agent; at a later time it returns False and
\* changes nothing; and in the tick in which an action stored by
\* wait_for_teleop fires, autonomous is false.
C23_WaitForTeleop ==
    /\ [](\A n \in DOMAIN ag :
             IF time < AUTONOMOUS_SECS
             THEN /\ wait_for_teleop_result(World, n)
                  /\ wait_for_teleop(World, n).ag[n].scheduled_action # None
                  /\ wait_for_teleop(World, n).ag[n].scheduled_action_description
                        = "wait for Teleop"
             ELSE /\ ~wait_for_teleop_result(World, n)
                  /\ wait_for_teleop(World, n) = World)
    /\ [][\A n \in DOMAIN ag :
             (/\ time' = time + 1
              /\ ag[n].scheduled_action # None
              /\ ag[n].scheduled_action_description = "wait for Teleop"
              /\ ag[n].eta = Some(time + 1)
              /\ \E i \in DOMAIN log' :
                    /\ log'[i].ev = "action" /\ log'[i].who = n
                    /\ log'[i].id = ag[n].scheduled_action[1].id)
                 => ~autonomous([time |-> time'])]_vars

\* ------------------------------------------------------------------------
\* C24: no seesaw is forced and boosted at once, and a seesaw carries the
\* alliance of a power-up exactly while it is under it; a force or boost
\* call that took effect left the seesaw under the power-up it started
\* and not under the other one, or under neither if it ended one.
C24_ForceBoostExclusive ==
    /\ \A n \in Seesaws :
          /\ ~(ag[n].forced /\ ag[n].boosted)
          /\ ag[n].forced <=> ag[n].force_alliance \in {RED, BLUE}
          /\ ag[n].boosted <=> ag[n].boost_alliance \in {RED, BLUE}
          /\ ~ag[n].forced => ag[n].force_alliance = ""
          /\ ~ag[n].boosted => ag[n].boost_alliance = ""
    /\ \A i \in DOMAIN log :
          i = Len(log) =>
              /\ log[i].ev = "force" =>
                    (ag[log[i].who].forced /\ ~ag[log[i].who].boosted)
              /\ log[i].ev = "boost" =>
                    (ag[log[i].who].boosted /\ ~ag[log[i].who].forced)
              /\ log[i].ev \in {"end force", "end boost"} =>
                    (~ag[log[i].who].boosted /\ ~ag[log[i].who].forced)
\* A boost was started on a forced seesaw (and, the other way round, a
\* force on a boosted one is as reachable): the seesaw is boosted only.
C24_Witness ==
    \E n \in Seesaws :
        /\ Len(log) = 1 /\ log[1].ev = "boost" /\ log[1].who = n
        /\ log[1].st = "forced"
        /\ ag[n].boosted /\ ~ag[n].forced /\ ag[n].force_alliance = ""

\* The vault columns of the game, each a pair of its vault and its index,
\* and the columns whose power-up is active: started and not yet ended.
Columns == {c \in Vaults \X (1..3) : TRUE}
column_of(c) == ag[c[1]].columns[c[2]]
PowerUpActive(c) == Len(column_of(c).starts) > Len(column_of(c).ends)
ActiveColumns == {c \in Columns : PowerUpActive(c)}

\* ------------------------------------------------------------------------
\* C25: at most one power-up action is active at any time, over both
\* vaults; the active one is the head of the queue; and a power-up that
\* has started did so only after every power-up given to the queue before
\* it had ended.
C25_OneActivePowerUp ==
    /\ Cardinality(ActiveColumns) <= 1
    /\ \A c \in ActiveColumns :
          /\ ag[power_up_queue].queue # << >>
          /\ ag[power_up_queue].queue[1].vault = c[1]
          /\ ag[power_up_queue].queue[1].column = c[2]
    /\ \A c \in Columns, d \in Columns :
          (column_of(c).starts # << >> /\ column_of(d).order > 0
           /\ column_of(d).order < column_of(c).order)
          => /\ column_of(d).ends # << >>
             /\ column_of(d).ends[1] <= column_of(c).starts[1]
\* A power-up is active at the head of the queue while a second one,
\* activated later, waits behind it without having started.
C25_Witness ==
    /\ Len(ag[power_up_queue].queue) = 2
    /\ ActiveColumns = {<< ag[power_up_queue].queue[1].vault,
                           ag[power_up_queue].queue[1].column >>}
    /\ column_of(<< ag[power_up_queue].queue[2].vault,
                    ag[power_up_queue].queue[2].column >>).starts = << >>
    /\ column_of(<< ag[power_up_queue].queue[2].vault,
                    ag[power_up_queue].queue[2].column >>).order = 2

\* A vault column in the next state; the seesaws the power-up at the head
\* of the queue was started on show it (a switch only for its own
\* alliance, which the columns of a vault select by construction).
column_next(c) == ag'[c[1]].columns[c[2]]
UnderPowerUp(n, power_up) ==
    IF power_up.action = "force"
    THEN ag[n].forced /\ ag[n].force_alliance = power_up.alliance
    ELSE ag[n].boosted /\ ag[n].boost_alliance = power_up.alliance
\* What holds of the power-ups in every state.
PowerUpTimes ==
    /\ \A i \in DOMAIN ag[power_up_queue].queue, j \in DOMAIN ag[power_up_queue].queue :
          i < j =>
              column_of(<< ag[power_up_queue].queue[i].vault,
                           ag[power_up_queue].queue[i].column >>).order
              < column_of(<< ag[power_up_queue].queue[j].vault,
                             ag[power_up_queue].queue[j].column >>).order
    /\ \A c \in Columns, d \in Columns :
          (column_of(c).starts # << >> /\ column_of(d).starts # << >>
           /\ column_of(c).order < column_of(d).order)
          => column_of(c).starts[1] < column_of(d).starts[1]
    /\ \A c \in Columns :
          /\ PowerUpActive(c) =>
                /\ column_of(c).starts[1] <= time
                /\ time <= column_of(c).starts[1] + POWER_UP_SECS - 1
                /\ \A k \in DOMAIN ag[power_up_queue].queue[1].selected :
                      UnderPowerUp(ag[power_up_queue].queue[1].selected[k],
                                   ag[power_up_queue].queue[1])
          /\ column_of(c).ends # << >> =>
                column_of(c).ends[1] = column_of(c).starts[1] + POWER_UP_SECS
\* What holds of the power-ups in every step.
PowerUpSteps ==
    \A c \in Columns :
        /\ (PowerUpActive(c) /\ time' = time + 1
            /\ time' <= column_of(c).starts[1] + POWER_UP_SECS - 1)
           => /\ column_next(c).starts = column_of(c).starts
              /\ column_next(c).ends = << >>
              /\ raised' = ""
              /\ ticks' = ticks + 1
        /\ (PowerUpActive(c) /\ column_next(c).ends # << >>
            /\ Len(ag[power_up_queue].queue) >= 2)
           => /\ ag'[power_up_queue].queue[1] = ag[power_up_queue].queue[2]
              /\ ag'[ag[power_up_queue].queue[2].vault]
                    .columns[ag[power_up_queue].queue[2].column].starts
                 = << time' >>
              /\ column_next(c).ends = << time' >>

\* ------------------------------------------------------------------------
\* C26: the queue holds the power-ups in the order of their activation and
\* they start in that order; a power-up started in tick T is active, and
\* its seesaws are under it, in the scoring passes of the ticks T..T+9 and
\* in no other; it is ended in tick T+10, and in that tick the power-up
\* waiting behind it starts.
C26_TenSecondsThenNext == []PowerUpTimes /\ [][PowerUpSteps]_vars
\* The power-ups of vault n that are in the queue, waiting or active, and
\* the Force and Boost columns of a vault.
QueuedOf(n) ==
    {i \in DOMAIN ag[power_up_queue].queue : ag[power_up_queue].queue[i].vault = n}
ForceBoost(n) == {i \in 1..3 : ag[n].columns[i].action \in {"force", "boost"}}
\* What the log of a step tells of an activate() call on column c: the
\* value it returned.
Returned(c, value) ==
    \E k \in DOMAIN log' :
        /\ log'[k].ev = "activate" /\ log'[k].who = c[1]
        /\ log'[k].id = c[2] /\ log'[k].st = value
\* The interlock of a vault is set exactly while one of its power-ups is in
\* the queue, and then activating the vault's other column does nothing.
Interlock ==
    \A n \in Vaults :
        /\ Cardinality(QueuedOf(n)) <= 1
        /\ ag[switch_of(World, n)].active_power_up # None <=> QueuedOf(n) # {}
        /\ \A q \in QueuedOf(n) :
              /\ ag[switch_of(World, n)].active_power_up
                 = Some(ag[power_up_queue].queue[q].action)
              /\ \A i \in ForceBoost(n) \ {ag[power_up_queue].queue[q].column} :
                    /\ ~activate_result(World, n, i)
                    /\ activate(World, n, i) = World
\* A button pushed in a tick that does not end the vault's power-up in the
\* queue changes nothing; one pushed when the vault has no power-up in the
\* queue, or in the tick that ended it, takes effect.
InterlockSteps ==
    \A n \in Vaults, i \in 1..3 :
        /\ (i \in ForceBoost(n)
            /\ (\E r \in QueuedOf(n), q \in DOMAIN ag'[power_up_queue].queue :
                   /\ ag[power_up_queue].queue[r].column # i
                   /\ ag'[power_up_queue].queue[q] = ag[power_up_queue].queue[r])
            /\ (Returned(<< n, i >>, "True") \/ Returned(<< n, i >>, "False")))
           => /\ Returned(<< n, i >>, "False")
              /\ ag'[n].columns[i] = ag[n].columns[i]
              /\ \A q \in DOMAIN ag'[power_up_queue].queue :
                    ag'[power_up_queue].queue[q].vault = n
                    => ag'[power_up_queue].queue[q] \in
                          {ag[power_up_queue].queue[r] : r \in QueuedOf(n)}
        /\ (i \in ForceBoost(n) /\ ~ag[n].columns[i].played
            /\ ag[n].columns[i].cubes > 0
            /\ (\A r \in QueuedOf(n), q \in DOMAIN ag'[power_up_queue].queue :
                   ag'[power_up_queue].queue[q] # ag[power_up_queue].queue[r])
            /\ (Returned(<< n, i >>, "True") \/ Returned(<< n, i >>, "False")))
           => Returned(<< n, i >>, "True")

\* ------------------------------------------------------------------------
\* C27: a vault's switch holds a power-up name exactly while a Force or
\* Boost of the vault is in the queue (waiting or active); during that
\* time activate() on the vault's other Force/Boost column returns False,
\* leaves the column unplayed and the queue as it is; once the queued
\* action has ended the other column can be activated.
C27_InterlockUntilEnd == []Interlock /\ [][InterlockSteps]_vars
\* The button of a loaded, unplayed column was pushed while the vault's
\* other power-up was active: activate() returned False.
C27_Witness ==
    \E n \in Vaults, i \in 1..3 :
        /\ i \in ForceBoost(n)
        /\ \E k \in DOMAIN log :
              /\ log[k].ev = "activate" /\ log[k].who = n /\ log[k].id = i
              /\ log[k].st = "False"
        /\ ag[n].columns[i].cubes > 0 /\ ~ag[n].columns[i].played
        /\ \E q \in QueuedOf(n) :
              /\ ag[power_up_queue].queue[q].column # i
              /\ PowerUpActive(<< n, ag[power_up_queue].queue[q].column >>)

\* What holds of a played column in every state, and of every column's
\* starts and ends.
PlayedOnce ==
    \A c \in Columns :
        /\ column_of(c).played =>
              /\ ~activate_result(World, c[1], c[2])
              /\ activate(World, c[1], c[2]) = World
        /\ Len(column_of(c).starts) <= 1
        /\ Len(column_of(c).ends) <= 1
        /\ Len(column_of(c).ends) <= Len(column_of(c).starts)
        /\ column_of(c).starts # << >> => column_of(c).played
\* What holds of the columns in every step: played is kept, and a button
\* of a played column pushed in the step got False, left the column its
\* place in the order of activations and put nothing of it into the queue.
PlayedSteps ==
    \A c \in Columns :
        /\ column_of(c).played => column_next(c).played
        /\ (column_of(c).played
            /\ (Returned(c, "True") \/ Returned(c, "False")))
           => /\ Returned(c, "False")
              /\ column_next(c).order = column_of(c).order
              /\ \A q \in DOMAIN ag'[power_up_queue].queue :
                    (ag'[power_up_queue].queue[q].vault = c[1]
                     /\ ag'[power_up_queue].queue[q].column = c[2])
                    => ag'[power_up_queue].queue[q] \in
                          {ag[power_up_queue].queue[r] :
                              r \in DOMAIN ag[power_up_queue].queue}

\* ------------------------------------------------------------------------
\* C28: a played column stays played; activate() on it returns False and
\* changes nothing, however often and whenever it is called; so the
\* power-up of a column starts at most once and ends at most once.
C28_PlayedForGood == []PlayedOnce /\ [][PlayedSteps]_vars
\* The button of a column whose power-up had started and ended was pushed
\* again: activate() returned False and the power-up did not start anew.
C28_Witness ==
    \E c \in Columns :
        /\ column_of(c).played
        /\ Len(column_of(c).starts) = 1 /\ Len(column_of(c).ends) = 1
        /\ \E k \in DOMAIN log :
              /\ log[k].ev = "activate" /\ log[k].who = c[1] /\ log[k].id = c[2]
              /\ log[k].st = "False"
              /\ log[k].t > column_of(c).ends[1]

\* The cubes a vault holds in its three columns, in this state and the
\* next, and the points of the score event of agent n in the log of a step.
VaultCubes(n) ==
    ag[n].columns[1].cubes + ag[n].columns[2].cubes + ag[n].columns[3].cubes
VaultCubesNext(n) ==
    ag'[n].columns[1].cubes + ag'[n].columns[2].cubes + ag'[n].columns[3].cubes
ScoredInStep(n, points) ==
    /\ Cardinality({k \in DOMAIN log' : log'[k].ev = "score" /\ log'[k].who = n}) = 1
    /\ \E k \in DOMAIN log' :
          /\ log'[k].ev = "score" /\ log'[k].who = n
          /\ Score(log'[k].t, log'[k].id) = points
\* What holds of every vault in every state.
VaultPointsOwn ==
    \A n \in Vaults :
        /\ (IF ag[n].alliance = RED THEN ag[n].scored.blue ELSE ag[n].scored.red) = 0
        /\ (IF ag[n].alliance = RED THEN ag[n].scored.red ELSE ag[n].scored.blue)
           <= 5 * VaultCubes(n)
\* What is said of every vault in every tick: the points its score() has
\* returned so far are 5 for each cube it holds after the tick, and the
\* cubes added in the tick are paid for by the score() of that tick.
VaultPointsSteps ==
    \A n \in Vaults :
        time' = time + 1
        => /\ ag'[n].scored = pick(ag[n].alliance, 5 * VaultCubesNext(n))
           /\ (VaultCubesNext(n) > VaultCubes(n)
               /\ ag[n].scored = pick(ag[n].alliance, 5 * VaultCubes(n)))
              => ScoredInStep(n, pick(ag[n].alliance,
                                      5 * (VaultCubesNext(n) - VaultCubes(n))))

\* ------------------------------------------------------------------------
\* C29: after every tick, the points a vault's score() has returned in all
\* ticks so far are 5 for each cube in its three columns, all of them for
\* the vault's own alliance; the score() of a tick returns the points of
\* the cubes added since the scoring pass before, so a cube added in a
\* tick is counted in that tick and in no other.
C29_VaultPointsPerCube == []VaultPointsOwn /\ [][VaultPointsSteps]_vars

\* The owner a seesaw has in the next state, as Scale.owner and
\* Switch.owner find it there, and the points the seesaw awards in a
\* scoring pass that finds this owner.
OwnerNext(n) == owner([ag |-> ag', plate_cubes |-> plate_cubes'], n)
OwnershipPoints(n) ==
    IF time' <= AUTONOMOUS_SECS
       \/ (ag'[n].boosted /\ ag'[n].boost_alliance = OwnerNext(n))
    THEN 2 ELSE 1
SeesawPoints(n) ==
    IF OwnerNext(n) = "" THEN ZERO
    ELSE IF OwnerNext(n) # ag[n].previous_owner
    THEN pick(OwnerNext(n), 2 * OwnershipPoints(n))
    ELSE pick(OwnerNext(n), OwnershipPoints(n))

\* ------------------------------------------------------------------------
\* C30: in the scoring pass of every tick each Scale and Switch awards
\* points to its owner only, none if it has no owner: 1 point, 2 in the
\* autonomous period or when boosted by the owner's alliance, and twice
\* that if the owner is not the one the scoring pass before found; the
\* pass leaves previous_owner equal to the owner.
C30_OwnershipPoints ==
    [][ \A n \in Seesaws :
           (time' = time + 1 /\ raised' = "")
           => /\ ScoredInStep(n, SeesawPoints(n))
              /\ ag'[n].previous_owner = OwnerNext(n) ]_vars
\* A seesaw changed hands between two scoring passes after the autonomous
\* period: the new owner got the doubled points; and a seesaw boosted by
\* its owner's alliance, owned since the pass before, awarded 2 points.
C30_Witness ==
    /\ time > AUTONOMOUS_SECS
    /\ raised = ""
    /\ \E n \in Seesaws, k \in DOMAIN log :
          /\ log[k].ev = "score" /\ log[k].who = n
          /\ owner(World, n) # ""
          /\ Score(log[k].t, log[k].id) = pick(owner(World, n), 2)
          /\ ~ag[n].boosted

\* The switches of the game, and the points an alliance has in a score.
Switches == {n \in Seesaws : ag[n].kind = "Switch"}
points_of(a, alliance) == IF alliance = RED THEN a.red ELSE a.blue
\* What holds of every switch in every state.
SwitchOwnAlliance ==
    \A n \in Switches :
        /\ owner(World, n) \in {"", ag[n].alliance}
        /\ ag[n].forced => ag[n].force_alliance = ag[n].alliance
        /\ ag[n].boosted => ag[n].boost_alliance = ag[n].alliance
        /\ \A is_start \in BOOLEAN :
              /\ force(World, n, opposite(ag[n].alliance), is_start) = World
              /\ boost(World, n, opposite(ag[n].alliance), is_start) = World
\* What holds of every switch in every step: the points it awards.
SwitchPointsSteps ==
    \A n \in Switches, k \in DOMAIN log' :
        (log'[k].ev = "score" /\ log'[k].who = n)
        => points_of(Score(log'[k].t, log'[k].id), opposite(ag[n].alliance)) = 0

\* ------------------------------------------------------------------------
\* C31: the owner of a Switch is its own alliance or nobody, whatever the
\* cubes on its plates; force and boost called for the other alliance
\* leave the Switch (and everything else) as it is; and no score() of a
\* Switch returns points for the other alliance.
C31_SwitchOwnAllianceOnly == []SwitchOwnAlliance /\ [][SwitchPointsSteps]_vars
\* The plate of the other alliance's colour holds more cubes than the
\* plate of the switch's alliance: the switch has no owner and its score()
\* of the tick returned no points.
C31_Witness ==
    \E n \in Switches :
        /\ Scale_owner(World, n) = opposite(ag[n].alliance)
        /\ ~ag[n].forced
        /\ owner(World, n) = ""
        /\ raised = ""
        /\ \E k \in DOMAIN log :
              /\ log[k].ev = "score" /\ log[k].who = n
              /\ Score(log[k].t, log[k].id) = ZERO


\* The robots of a step, and the moves of auto_run that go forward.
RobotsInStep ==
    {n \in DOMAIN ag \cap DOMAIN ag' :
        ag[n].kind = "Robot" /\ ag'[n].kind = "Robot" /\ ag'[n].oid = ag[n].oid}
AutoRunMoves ==
    {<<NOT_YET, ACHIEVED>>, <<NOT_YET, COUNTED>>, <<ACHIEVED, COUNTED>>}
\* The robot's action of the step was the arrive() of a drive.
ArrivedInStep(n) ==
    \E k \in DOMAIN log' :
        log'[k].ev = "action" /\ log'[k].who = n /\ log'[k].fn = "arrive"
\* What is said of every robot in every step.
AutoRunSteps ==
    \A n \in RobotsInStep :
        /\ \/ ag'[n].auto_run = ag[n].auto_run
           \/ <<ag[n].auto_run, ag'[n].auto_run>> \in AutoRunMoves
        /\ (ag[n].auto_run = NOT_YET /\ ag'[n].auto_run # NOT_YET)
           => /\ ArrivedInStep(n)
              /\ is_inner_zone(ag'[n].location)
              /\ time' <= AUTONOMOUS_SECS + 1
        /\ (ag[n].auto_run # COUNTED /\ ag'[n].auto_run = COUNTED)
           => ScoredInStep(n, pick(ag[n].alliance, 5))
        /\ \A k \in DOMAIN log' :
              (log'[k].ev = "score" /\ log'[k].who = n)
              => Score(log'[k].t, log'[k].id) =
                     IF ag[n].auto_run # COUNTED /\ ag'[n].auto_run = COUNTED
                     THEN pick(ag[n].alliance, 5) ELSE ZERO
        /\ sim_class = "PowerUpGame" => ag'[n].auto_run # ACHIEVED

\* ------------------------------------------------------------------------
\* C32: auto_run of a robot only moves forward, NOT_YET -> ACHIEVED ->
\* COUNTED; it leaves NOT_YET only in a step in which the robot arrives in
\* an inner zone at a time <= AUTONOMOUS_SECS + 1; and the robot's score()
\* returns 5 points for its own alliance in the scoring pass of that tick,
\* which makes it COUNTED, and no points in any other pass.
C32_AutoRunOnce == [][AutoRunSteps]_vars
\* A robot arrived in an inner zone at the last second that counts and its
\* 5 points were returned in the scoring pass of the same tick.
C32_Witness ==
    /\ time = AUTONOMOUS_SECS + 1
    /\ \E n \in DOMAIN ag, k \in DOMAIN log, j \in DOMAIN log :
          /\ ag[n].kind = "Robot" /\ ag[n].auto_run = COUNTED
          /\ log[k].ev = "action" /\ log[k].who = n /\ log[k].fn = "arrive"
          /\ log[j].ev = "score" /\ log[j].who = n
          /\ Score(log[j].t, log[j].id) = pick(ag[n].alliance, 5)


\* The robots of a state.
Robots == {n \in DOMAIN ag : ag[n].kind = "Robot"}
\* What holds of every robot in every state: what a call of climb() and of
\* drive_to() would do, and where a robot that climbed is.
ClimbCalls ==
    \A n \in Robots :
        /\ ~at_platform(World, n) => climb(World, n) = World
        /\ at_platform(World, n)
           => /\ climb(World, n).ag[n].eta = Some(time + ag[n].climb_time)
              /\ climb(World, n).ag[n].scheduled_action # None
              /\ climb(World, n).ag[n].scheduled_action[1].fn = "climb"
        /\ ag[n].climbed # ""
           => \A destination \in Location : drive_to(World, n, destination) = World
        /\ ag[n].climbed = "Climbed" => at_platform(World, n)
\* What holds of every robot in every step: a robot becomes Climbed by the
\* finish() of a climb on its platform, and a robot that climbed stays.
ClimbSteps ==
    \A n \in RobotsInStep :
        /\ (ag[n].climbed = "" /\ ag'[n].climbed = "Climbed")
           => /\ at_platform(World, n)
              /\ \E k \in DOMAIN log' :
                    log'[k].ev = "action" /\ log'[k].who = n /\ log'[k].fn = "climb"
        /\ ag[n].climbed # ""
           => ag'[n].climbed # "" /\ ag'[n].location = ag[n].location

\* ------------------------------------------------------------------------
\* C33: climb() called off the robot's own platform returns with nothing
\* scheduled and the pending action as it was, and called on the platform
\* it schedules the climb; drive_to called on a robot that climbed changes
\* nothing; a robot becomes Climbed only on its platform and never moves
\* afterwards, so a Climbed robot is on its own platform in every state.
C33_ClimbedStaysOnPlatform == []ClimbCalls /\ [][ClimbSteps]_vars
\* A robot drove to its platform and climbed, and the call after that, a
\* drive_to, returned with nothing scheduled.
C33_Witness ==
    \E n \in Robots :
        /\ ag[n].climbed = "Climbed"
        /\ calls = MaxDriveCalls
        /\ log = << >> /\ raised = ""
        /\ ag[n].eta = None


\* The robots of an alliance, and the three classes of the preference:
\* 0 for a robot that neither climbed nor parked, 1 for a parked one, 2 for
\* one that climbed.
AllianceRobots(alliance) == {n \in Robots : ag[n].alliance = alliance}
levitate_rank(n) ==
    IF ag[n].climbed # "" THEN 2 ELSE IF at_platform(World, n) THEN 1 ELSE 0
LevitateActivated(alliance) ==
    ag[agent_name(alliance, "", "Switch")].levitate_activated
\* What holds in every state: Levitate is activated exactly when its
\* column was played, which takes 3 cubes; nobody is Levitated before the
\* endgame.
LevitateState ==
    /\ \A alliance \in {RED, BLUE} :
          LET column == ag[agent_name(alliance, "", "Vault")].columns[column_index("levitate")]
          IN /\ LevitateActivated(alliance) <=> column.played
             /\ column.played => column.cubes = 3
    /\ endgames = 0 => \A n \in Robots : ag[n].climbed # "Levitated"
\* What the endgame does to the robots of an alliance.
LevitateCredit(alliance) ==
    IF LevitateActivated(alliance)
    THEN \E r \in AllianceRobots(alliance) :
             /\ ag'[r].climbed = "Levitated"
             /\ \A q \in AllianceRobots(alliance) :
                   /\ levitate_rank(r) <= levitate_rank(q)
                   /\ q # r => ag'[q].climbed = ag[q].climbed
    ELSE \A q \in AllianceRobots(alliance) : ag'[q].climbed = ag[q].climbed
\* The points of the endgame, robot by robot.
RobotEndgamePoints ==
    \A n \in DOMAIN ag :
        /\ Cardinality({k \in DOMAIN log' : log'[k].ev = "endgame" /\ log'[k].who = n}) = 1
        /\ \A k \in DOMAIN log' :
              (log'[k].ev = "endgame" /\ log'[k].who = n)
              => Score(log'[k].t, log'[k].id) =
                     IF ag[n].kind # "Robot" THEN ZERO
                     ELSE pick(ag[n].alliance,
                               IF ag'[n].climbed # "" THEN 30
                               ELSE IF at_platform(World, n) THEN 5 ELSE 0)
EndgameSteps ==
    endgames' = endgames + 1
    => /\ LevitateCredit(RED) /\ LevitateCredit(BLUE)
       /\ RobotEndgamePoints
       /\ \A n \in Robots : ag'[n].location = ag[n].location

\* ------------------------------------------------------------------------
\* C34: Levitate is activated only with 3 cubes in the levitate column; at
\* the endgame, for each alliance whose Levitate was activated, exactly
\* one robot of the alliance becomes Levitated, one that neither climbed
\* nor parked if there is one, else a parked one, else one that climbed,
\* and no robot of another alliance does; each robot's endgame_score() is
\* then 30 for its alliance if it climbed or was levitated, else 5 if it
\* is on its platform, else 0.
C34_LevitateAtEndgame == []LevitateState /\ [][EndgameSteps]_vars
\* After the endgame: RED's Levitate went to a parked robot, beside a robot
\* that climbed (30 points) and a parked one (5 points); all of BLUE's
\* robots had climbed and one of them is the Levitated one.
C34_Witness ==
    /\ endgames = 1
    /\ \E r \in AllianceRobots(RED) :
          /\ ag[r].climbed = "Levitated" /\ at_platform(World, r)
          /\ \E q \in AllianceRobots(RED) : ag[q].climbed = "Climbed"
          /\ \E q \in AllianceRobots(RED), k \in DOMAIN log :
                /\ ag[q].climbed = "" /\ at_platform(World, q)
                /\ log[k].ev = "endgame" /\ log[k].who = q
                /\ Score(log[k].t, log[k].id) = pick(RED, 5)
    /\ Cardinality({n \in AllianceRobots(BLUE) : ag[n].climbed = "Climbed"}) = 2
    /\ Cardinality({n \in AllianceRobots(BLUE) : ag[n].climbed = "Levitated"}) = 1


\* The pending action of a robot and where it is, in a program state.
Driving(s, n) ==
    << s.ag[n].location, s.ag[n].eta, s.ag[n].scheduled_action,
       s.ag[n].scheduled_action_description >>
\* drive_to(destination) called now on robot n, there being no direct path:
\* the exception it ends with, and whether it left the robot as it was.
NoPathRaises(n, destination) ==
    drive_to(World, n, destination).raised = "KeyError"
NoPathUnchanged(n, destination) ==
    /\ Driving(drive_to(World, n, destination), n) = Driving(World, n)
    /\ [drive_to(World, n, destination) EXCEPT !.raised = ""] = World
\* A step that ends with KeyError leaves every robot as it was.
KeyErrorSteps ==
    raised' = "KeyError"
    => \A n \in RobotsInStep :
          /\ ag'[n].location = ag[n].location
          /\ ag'[n].eta = ag[n].eta
          /\ ag'[n].scheduled_action = ag[n].scheduled_action
          /\ ag'[n].scheduled_action_description = ag[n].scheduled_action_description

sum_of(f) == BagCardinality([x \in {y \in DOMAIN f : f[y] > 0} |-> f[x]])
\* The cubes an agent holds: a robot's or human's cubes, a vault's columns.
agent_cubes(a) ==
    IF a.kind \in {"Robot", "Human"} THEN a.cubes
    ELSE IF a.kind = "Vault"
    THEN a.columns[1].cubes + a.columns[2].cubes + a.columns[3].cubes
    ELSE 0
\* All the cubes: on the field, on the plates, in robots, humans and vaults.
TotalCubes ==
    sum_of(cubes) + sum_of(plate_cubes)
    + sum_of([n \in DOMAIN ag |-> agent_cubes(ag[n])])

\* ------------------------------------------------------------------------
\* C36: no step after the setup of the match changes the total number of
\* cubes (field locations, plates, robots, humans and vault columns): the
\* effects of pickup, drop, place, get_from_exchange, put_to_exchange,
\* put_to_vault and put_through_portal move one cube or none, also when
\* put_to_vault targets a full column.
C36_CubesConserved == [][TotalCubes' = TotalCubes]_vars


\* The power-up queue has a pending 'dequeue' action.
DequeuePending ==
    /\ ag[power_up_queue].scheduled_action # None
    /\ ag[power_up_queue].scheduled_action[1].fn = "dequeue"
    /\ ag[power_up_queue].scheduled_action_description = "dequeue"
    /\ ag[power_up_queue].eta # None

\* ------------------------------------------------------------------------
\* C37: in every state (after every tick and every activate() call) the
\* power-up queue has a pending 'dequeue' action if and only if its queue
\* is not empty, and the eta of that action is at most POWER_UP_SECS after
\* the current time.
C37_DequeueIffQueued ==
    /\ DequeuePending <=> ag[power_up_queue].queue # << >>
    /\ DequeuePending => ag[power_up_queue].eta[1] <= time + POWER_UP_SECS


\* The objects constructed so far, by their number, and where they are.
Registered(o) == \E n \in DOMAIN ag : ag[n].oid = o /\ ag[n].simulation = "sim"
RegisteredInOther(o) ==
    \E i \in DOMAIN other : other[i].oid = o /\ other[i].simulation = "other"
\* The update() calls of the last tick on agent n.
UpdatesOf(n) == {k \in DOMAIN log : log[k].ev = "update" /\ log[k].who = n}

\* ------------------------------------------------------------------------
\* C38: whatever the sequence of constructions, every agent constructed is
\* in the registry of the simulation it was constructed for, the registry
\* has one entry per agent constructed for it, and a tick that returns
\* has updated each of them once; the agents of a PowerUpGame are 18 with
\* 18 different names.
C38_EveryAgentRegistered ==
    /\ \A o \in 1..made : Registered(o) \/ RegisteredInOther(o)
    /\ Len(agents) = Cardinality(DOMAIN ag)
    /\ Len(agents) + Len(other) = made
    /\ (raised = "" /\ \E k \in DOMAIN log : log[k].ev = "update")
       => \A n \in DOMAIN ag : Cardinality(UpdatesOf(n)) = 1
    /\ sim_class = "PowerUpGame" => Len(agents) = 18 /\ made = 18

====
